---- MODULE Spec2Model ----
(***************************************************************************)
(* Copy-trading decision engine of PMBot (src/trader): trade feed,         *)
(* validator, position sizer, portfolio tracker, circuit breaker and the   *)
(* per-trade control loop.                                                  *)
(*                                                                         *)
(* Units.  Money is an integer number of cents.  Values the code computes  *)
(* in floating point that need not be whole cents (percentages, the        *)
(* sizer's intermediate results, the 0.001 USD minimum bet) are exact      *)
(* fractions <<n, d>> with d > 0 in lowest terms.  Prices are hundredths   *)
(* (price 50 is 0.50).  Time is in seconds; the clock is the pair of now   *)
(* (whole seconds, what int() keeps) and frac (half seconds), and Clock    *)
(* is its full reading in half seconds.                                    *)
(***************************************************************************)
EXTENDS Integers, Sequences, FiniteSets, TLC

VARIABLES
    now,           \* wall clock in whole seconds: int(datetime.now().timestamp())
    frac,          \* what the truncation drops: the half seconds (0 or 1)
    wallet,        \* external balance plus open-position value (dynamic mode)
    cfg,           \* configuration fixed at construction
    pm,            \* PositionManager fields
    rm,            \* RiskManager fields
    market_cache,  \* TradeValidator.market_cache: condition id -> entry
    mon,           \* TradeMonitor fields and the position of its threads
    bot,           \* CopycatBot.running and the position of the main thread
    calls,         \* per transaction id: callbacks started so far (capped)
    cb,            \* what the callback of the last step did (or NoCallback)
    sz,            \* sizer harness: inputs and outputs of calculate_position_size
    vt,            \* validator harness: inputs and outcome of validate_trade
    ex,            \* executor harness: inputs and outcome of execute_order
    dh             \* drawdown harness: what update_drawdown last observed

vars == <<now, frac, wallet, cfg, pm, rm, market_cache, mon, bot, calls, cb, sz, vt,
          ex, dh>>
botVars == <<now, frac, wallet, cfg, pm, rm, market_cache, mon, bot, calls, cb>>

-----------------------------------------------------------------------------
(* Exact arithmetic helpers                                                *)

Abs(x) == IF x < 0 THEN -x ELSE x

RECURSIVE Gcd(_, _)
Gcd(a, b) == IF b = 0 THEN a ELSE Gcd(b, a % b)

\* n / d as a fraction in lowest terms with a positive denominator (d # 0)
Frac(n, d) ==
    LET g == Gcd(Abs(n), Abs(d))
        s == IF d < 0 THEN -1 ELSE 1
    IN  <<(s * n) \div g, (s * d) \div g>>

FInt(k) == <<k, 1>>
FFloor(a) == a[1] \div a[2]
FRem(a) == a[1] % a[2]

\* a < b, comparing integer parts first so that products stay small
FLess(a, b) ==
    IF FFloor(a) # FFloor(b) THEN FFloor(a) < FFloor(b)
    ELSE FRem(a) * b[2] < FRem(b) * a[2]

FLeq(a, b) == a = b \/ FLess(a, b)
FMin(a, b) == IF FLess(b, a) THEN b ELSE a
FMax(a, b) == IF FLess(a, b) THEN b ELSE a

\* a * k and a / k for an integer k (k > 0 for the division)
FMulInt(a, k) ==
    LET g == Gcd(Abs(k), a[2]) IN Frac(a[1] * (k \div g), a[2] \div g)
FDivInt(a, k) ==
    LET g == Gcd(Abs(a[1]), k)
    IN  IF a[1] = 0 THEN <<0, 1>> ELSE Frac(a[1] \div g, a[2] * (k \div g))

\* Python round(x, 2) on a dollar amount = nearest whole cent.  An exact tie at
\* half a cent goes to the even cent here; the code rounds the binary float,
\* which at such a tie may sit on either side, so the input sets below avoid
\* exact ties and no property depends on the direction of a tie.
Round(a) ==
    LET q == FFloor(a)
        r == FRem(a)
    IN  IF 2 * r < a[2] THEN q
        ELSE IF 2 * r > a[2] THEN q + 1
        ELSE IF q % 2 = 0 THEN q ELSE q + 1

-----------------------------------------------------------------------------
(* Configuration (src/trader/config.py)                                    *)

max_kelly_fraction_pct == 25        \* max_kelly_fraction 0.25, times 100
min_bet_size_usd == <<1, 10>>       \* 0.001 USD = 1/10 cent
max_bet_size_usd == 100000          \* 1000 USD in cents
max_bet_pct_portfolio == 10
max_price_movement_pct == 5
min_hours_until_close == 24
min_24h_volume_usd == 5000
max_trade_age_seconds == 60
max_trades_per_hour == 10
min_seconds_between_trades == 30
daily_loss_limit_pct == 5
max_drawdown_pct == 15
min_edge_pct == 0
min_price == 1                      \* 0.01
max_price == 99                     \* 0.99
max_reconnect_attempts == 10
CACHE_TTL == 60
SECONDS_PER_DAY == 86400
SECONDS_PER_HOUR == 3600

Day(t) == t \div SECONDS_PER_DAY

\* datetime.now(): the untruncated reading of the clock, in half seconds
HALVES_PER_SECOND == 2
Clock == HALVES_PER_SECOND * now + frac

-----------------------------------------------------------------------------
(* PositionManager.calculate_position_size                                 *)

\* Faulty variant: the max-percent-of-portfolio clamp is missing
calculate_position_size_no_pct_cap(our_net_worth, their_bet_size, their_net_worth) ==
    IF their_net_worth <= 0 \/ our_net_worth <= 0 THEN 0
    ELSE
        LET their_bet_pct == Frac(their_bet_size * 100, their_net_worth)
            capped_pct    == FMin(their_bet_pct, FInt(max_kelly_fraction_pct))
            prop          == FMulInt(FDivInt(capped_pct, 100), our_net_worth)
            floored       == FMax(prop, min_bet_size_usd)
        IN  Round(FMin(floored, FInt(max_bet_size_usd)))

\* Faulty variant: the percentage is applied to their net worth, not ours
calculate_position_size_their_base(our_net_worth, their_bet_size, their_net_worth) ==
    IF their_net_worth <= 0 \/ our_net_worth <= 0 THEN 0
    ELSE
        LET their_bet_pct == Frac(their_bet_size * 100, their_net_worth)
            capped_pct    == FMin(their_bet_pct, FInt(max_kelly_fraction_pct))
            prop          == FMulInt(FDivInt(capped_pct, 100), their_net_worth)
            floored       == FMax(prop, min_bet_size_usd)
            ceiled        == FMin(floored, FInt(max_bet_size_usd))
            max_bet       == FMulInt(Frac(max_bet_pct_portfolio, 100), our_net_worth)
        IN  Round(FMin(ceiled, max_bet))

calculate_position_size(our_net_worth, their_bet_size, their_net_worth) ==
    IF their_net_worth <= 0 \/ our_net_worth <= 0 THEN 0
    ELSE
        LET their_bet_pct == Frac(their_bet_size * 100, their_net_worth)
            capped_pct    == FMin(their_bet_pct, FInt(max_kelly_fraction_pct))
            prop          == FMulInt(FDivInt(capped_pct, 100), our_net_worth)
            floored       == FMax(prop, min_bet_size_usd)
            ceiled        == FMin(floored, FInt(max_bet_size_usd))
            max_bet       == FMulInt(Frac(max_bet_pct_portfolio, 100), our_net_worth)
        IN  Round(FMin(ceiled, max_bet))

-----------------------------------------------------------------------------
(* PositionManager (src/trader/position_manager.py)                        *)

Markets == {"m1", "m2"}

\* PositionManager.__init__ followed by initialize(initial_capital)
NewPositionManager(initial_capital, wallet_address) ==
    [ wallet_address       |-> wallet_address,
      positions            |-> <<>>,
      initial_capital      |-> initial_capital,
      total_realized_pnl   |-> 0,
      total_unrealized_pnl |-> 0,
      daily_pnl            |-> 0,
      daily_reset_day      |-> Day(now),
      peak_net_worth       |-> initial_capital,
      current_drawdown_pct |-> <<0, 1>>,
      trade_history        |-> <<>>,
      last_trade_time      |-> 0 ]

\* Faulty variant: the fixed-mode net worth follows the daily PnL
get_net_worth_with_daily(p) ==
    IF cfg.bankroll_mode = "dynamic" /\ p.wallet_address # ""
    THEN wallet
    ELSE p.initial_capital + p.daily_pnl

\* get_net_worth: the live wallet reading in dynamic mode with a wallet
\* address, else initial capital plus realized and unrealized PnL
get_net_worth(p) ==
    IF cfg.bankroll_mode = "dynamic" /\ p.wallet_address # ""
    THEN wallet
    ELSE p.initial_capital + p.total_realized_pnl + p.total_unrealized_pnl

has_position(p, condition_id) == condition_id \in DOMAIN p.positions

\* general fraction product, sum and quotient (positions only)
FMul(a, b) == Frac(a[1] * b[1], a[2] * b[2])
FAdd(a, b) == Frac(a[1] * b[2] + b[1] * a[2], a[2] * b[2])
FDiv(a, b) == Frac(a[1] * b[2], a[2] * b[1])

\* add_position: size in shares and price are fractions
add_position(p, condition_id, asset, side, size, price) ==
    IF condition_id \in DOMAIN p.positions
    THEN LET pos        == p.positions[condition_id]
             total_cost == FAdd(FMul(pos.size, pos.avg_price), FMul(size, price))
             new_size   == FAdd(pos.size, size)
         IN  [p EXCEPT !.positions[condition_id] =
                          [pos EXCEPT !.size = new_size,
                                      !.avg_price = FDiv(total_cost, new_size)]]
    ELSE [p EXCEPT !.positions =
                      (condition_id :> [asset |-> asset, side |-> side,
                                        size |-> size, avg_price |-> price])
                      @@ p.positions]

\* Faulty variant: the cost of the trade is not taken off the daily PnL
record_trade_keeps_pnl(p, condition_id, cost) ==
    [p EXCEPT !.trade_history = Append(@, [timestamp |-> Clock,
                                           condition_id |-> condition_id,
                                           cost |-> cost]),
              !.last_trade_time = now]

\* record_trade: append to the history (stamped with the untruncated clock),
\* stamp last_trade_time with the whole seconds, and lower the daily PnL by
\* the cost size * price (in cents)
record_trade(p, condition_id, cost) ==
    [p EXCEPT !.trade_history = Append(@, [timestamp |-> Clock,
                                           condition_id |-> condition_id,
                                           cost |-> cost]),
              !.last_trade_time = now,
              !.daily_pnl = @ - cost]

update_daily_stats(p) ==
    IF Day(now) > p.daily_reset_day
    THEN [p EXCEPT !.daily_pnl = 0, !.daily_reset_day = Day(now)]
    ELSE p

\* Faulty variant: the high-water mark follows the net worth down
update_drawdown_follows(p) ==
    [raised |-> FALSE,
     pm |-> [p EXCEPT !.peak_net_worth = get_net_worth(p),
                      !.current_drawdown_pct = <<0, 1>>]]

\* update_drawdown; raised is the ZeroDivisionError of a zero high-water mark
update_drawdown(p) ==
    LET net_worth == get_net_worth(p)
    IN  IF net_worth > p.peak_net_worth
        THEN [raised |-> FALSE,
              pm |-> [p EXCEPT !.peak_net_worth = net_worth,
                               !.current_drawdown_pct = <<0, 1>>]]
        ELSE IF p.peak_net_worth = 0
        THEN [raised |-> TRUE, pm |-> p]
        ELSE [raised |-> FALSE,
              pm |-> [p EXCEPT !.current_drawdown_pct =
                         Frac((p.peak_net_worth - net_worth) * 100,
                              p.peak_net_worth)]]

\* get_trades_last_hour compares untruncated readings
get_trades_last_hour(p) ==
    Cardinality({i \in DOMAIN p.trade_history :
        p.trade_history[i].timestamp > Clock - HALVES_PER_SECOND * SECONDS_PER_HOUR})

-----------------------------------------------------------------------------
(* RiskManager (src/trader/risk_manager.py)                                *)

NewRiskManager == [circuit_breaker_active |-> FALSE, circuit_breaker_reason |-> ""]

\* Faulty variant: the daily limit trips at the boundary (<= instead of <)
RiskDailyLossOk_inclusive(daily_pnl, net_worth) ==
    net_worth <= 0 \/ daily_pnl * 100 > -(daily_loss_limit_pct * net_worth)

\* _check_daily_loss_limit, the comparison: no breach for a non-positive net
\* worth, else daily_pnl / net_worth * 100 >= -daily_loss_limit_pct
RiskDailyLossOk(daily_pnl, net_worth) ==
    net_worth <= 0 \/ daily_pnl * 100 >= -(daily_loss_limit_pct * net_worth)

\* _check_daily_loss_limit: refreshes the daily stats first
risk_check_daily_loss_limit(p) ==
    LET p1 == update_daily_stats(p)
    IN  [ok |-> RiskDailyLossOk(p1.daily_pnl, get_net_worth(p1)), pm |-> p1]

\* _check_drawdown_limit: refreshes the drawdown first
risk_check_drawdown_limit(p) ==
    LET u == update_drawdown(p)
    IN  [ok |-> u.raised \/ FLeq(u.pm.current_drawdown_pct, FInt(max_drawdown_pct)),
         raised |-> u.raised, pm |-> u.pm]

trigger_circuit_breaker(r, reason) ==
    [r EXCEPT !.circuit_breaker_active = TRUE, !.circuit_breaker_reason = reason]

\* Faulty variant: a tripped breaker is re-evaluated and clears on recovery
check_circuit_breakers_relatch(r, p) ==
    LET d  == risk_check_daily_loss_limit(p)
        dd == risk_check_drawdown_limit(d.pm)
    IN  IF ~d.ok
        THEN [ret |-> FALSE, raised |-> FALSE, pm |-> d.pm,
              rm |-> trigger_circuit_breaker(r, "Daily loss limit exceeded")]
        ELSE IF dd.raised
        THEN [ret |-> FALSE, raised |-> TRUE, pm |-> dd.pm, rm |-> r]
        ELSE IF ~dd.ok
        THEN [ret |-> FALSE, raised |-> FALSE, pm |-> dd.pm,
              rm |-> trigger_circuit_breaker(r, "Maximum drawdown exceeded")]
        ELSE [ret |-> TRUE, raised |-> FALSE, pm |-> dd.pm, rm |-> NewRiskManager]

\* Faulty variant: a tripped breaker still refreshes the daily stats and the
\* drawdown before it returns false
check_circuit_breakers_refreshes(r, p) ==
    LET d  == risk_check_daily_loss_limit(p)
        dd == risk_check_drawdown_limit(d.pm)
    IN  IF r.circuit_breaker_active
        THEN [ret |-> FALSE, raised |-> FALSE, pm |-> dd.pm, rm |-> r,
              net_worth_reads |-> 2]
        ELSE IF ~d.ok
        THEN [ret |-> FALSE, raised |-> FALSE, pm |-> d.pm,
              rm |-> trigger_circuit_breaker(r, "Daily loss limit exceeded"),
              net_worth_reads |-> 1]
        ELSE IF dd.raised
        THEN [ret |-> FALSE, raised |-> TRUE, pm |-> dd.pm, rm |-> r,
              net_worth_reads |-> 2]
        ELSE IF ~dd.ok
        THEN [ret |-> FALSE, raised |-> FALSE, pm |-> dd.pm,
              rm |-> trigger_circuit_breaker(r, "Maximum drawdown exceeded"),
              net_worth_reads |-> 2]
        ELSE [ret |-> TRUE, raised |-> FALSE, pm |-> dd.pm, rm |-> r,
              net_worth_reads |-> 2]

\* check_circuit_breakers: ret is the returned boolean (FALSE when it raised),
\* net_worth_reads the number of get_net_worth calls it made
check_circuit_breakers(r, p) ==
    IF r.circuit_breaker_active
    THEN [ret |-> FALSE, raised |-> FALSE, pm |-> p, rm |-> r, net_worth_reads |-> 0]
    ELSE
        LET d  == risk_check_daily_loss_limit(p)
            dd == risk_check_drawdown_limit(d.pm)
        IN  IF ~d.ok
            THEN [ret |-> FALSE, raised |-> FALSE, pm |-> d.pm,
                  rm |-> trigger_circuit_breaker(r, "Daily loss limit exceeded"),
                  net_worth_reads |-> 1]
            ELSE IF dd.raised
            THEN [ret |-> FALSE, raised |-> TRUE, pm |-> dd.pm, rm |-> r,
                  net_worth_reads |-> 2]
            ELSE IF ~dd.ok
            THEN [ret |-> FALSE, raised |-> FALSE, pm |-> dd.pm,
                  rm |-> trigger_circuit_breaker(r, "Maximum drawdown exceeded"),
                  net_worth_reads |-> 2]
            ELSE [ret |-> TRUE, raised |-> FALSE, pm |-> dd.pm, rm |-> r,
                  net_worth_reads |-> 2]

reset_circuit_breaker(r) == NewRiskManager

-----------------------------------------------------------------------------
(* TradeValidator (src/trader/trade_validator.py)                          *)

NoData == [nodata |-> TRUE]         \* _get_market_data returned None
NoPrice == -1                       \* _get_current_price returned None

Pass(reason) == [passed |-> TRUE, reason |-> reason, raised |-> FALSE]
Fail(reason) == [passed |-> FALSE, reason |-> reason, raised |-> FALSE]
Raised == [passed |-> FALSE, reason |-> "exception", raised |-> TRUE]

\* Faulty variant: when the fetch fails an expired entry is served
get_market_data_stale(cache, condition_id, fetched) ==
    IF /\ condition_id \in DOMAIN cache
       /\ now - cache[condition_id].timestamp < CACHE_TTL
    THEN [data |-> cache[condition_id].data, cache |-> cache]
    ELSE IF fetched # NoData
    THEN [data |-> fetched,
          cache |-> (condition_id :> [data |-> fetched, timestamp |-> now]) @@ cache]
    ELSE IF condition_id \in DOMAIN cache
    THEN [data |-> cache[condition_id].data, cache |-> cache]
    ELSE [data |-> NoData, cache |-> cache]

\* _get_market_data: a cache entry younger than 60 s is served; otherwise the
\* market is fetched (fetched = NoData for a failed or empty response) and a
\* successful response is cached with the current time
get_market_data(cache, condition_id, fetched) ==
    IF /\ condition_id \in DOMAIN cache
       /\ now - cache[condition_id].timestamp < CACHE_TTL
    THEN [data |-> cache[condition_id].data, cache |-> cache]
    ELSE IF fetched # NoData
    THEN [data |-> fetched,
          cache |-> (condition_id :> [data |-> fetched, timestamp |-> now]) @@ cache]
    ELSE [data |-> NoData, cache |-> cache]

\* _get_current_price: the price of the first token matching the asset
get_current_price(market_data, asset) ==
    LET idx == {i \in DOMAIN market_data.tokens :
                   market_data.tokens[i].token_id = asset}
    IN  IF idx = {} THEN NoPrice
        ELSE market_data.tokens[CHOOSE i \in idx : \A j \in idx : i <= j].price

check_price_sanity(trade) ==
    IF trade.price < min_price \/ trade.price > max_price
    THEN Fail("Price outside range") ELSE Pass("Price valid")

check_outcome_matching(trade, market_data) == Pass("Outcome matching OK")

check_duplicate(trade) == Pass("Not a duplicate")

check_liquidity(market_data) ==
    IF market_data.closed THEN Fail("Market is closed")
    ELSE Pass("Liquidity check passed")

\* endDate 0 stands for an absent end date
check_market_closing(market_data) ==
    IF market_data.endDate = 0 THEN Pass("No end date set")
    ELSE IF market_data.endDate - now < min_hours_until_close * SECONDS_PER_HOUR
    THEN Fail("Market closes too soon")
    ELSE Pass("Market closes later")

check_volume(market_data) ==
    IF market_data.volume24hr < min_24h_volume_usd
    THEN Fail("Volume too low") ELSE Pass("Volume OK")

check_spread(market_data) == Pass("Spread check passed")

check_trade_age(trade) ==
    IF now - trade.timestamp > max_trade_age_seconds
    THEN Fail("Trade too old") ELSE Pass("Trade age OK")

\* Faulty variant: the hourly cap is compared with > instead of >=
check_rate_limit_above(p) ==
    IF get_trades_last_hour(p) > max_trades_per_hour
    THEN Fail("Rate limit")
    ELSE IF now - p.last_trade_time < min_seconds_between_trades
    THEN Fail("Too soon since last trade")
    ELSE Pass("Rate limit OK")

check_rate_limit(p) ==
    IF get_trades_last_hour(p) >= max_trades_per_hour
    THEN Fail("Rate limit")
    ELSE IF now - p.last_trade_time < min_seconds_between_trades
    THEN Fail("Too soon since last trade")
    ELSE Pass("Rate limit OK")

\* _check_daily_loss_limit, on the stats already refreshed by the caller
check_daily_loss_limit(p) ==
    LET net_worth == get_net_worth(p)
    IN  IF net_worth > 0 /\ p.daily_pnl * 100 < -(daily_loss_limit_pct * net_worth)
        THEN Fail("Daily loss exceeds limit") ELSE Pass("Daily PnL OK")

\* _check_drawdown_protection, on the drawdown already refreshed by the caller
check_drawdown_protection(p) ==
    IF FLess(FInt(max_drawdown_pct), p.current_drawdown_pct)
    THEN Fail("Drawdown exceeds limit") ELSE Pass("Drawdown OK")

\* _check_minimum_edge: divides by trade.price
check_minimum_edge(trade, market_data) ==
    LET current_price == get_current_price(market_data, trade.asset)
    IN  IF current_price = NoPrice THEN Fail("Could not get current price")
        ELSE IF trade.price = 0 THEN Raised
        ELSE LET edge_pct ==
                   IF trade.side = "BUY"
                   THEN Frac((trade.price - current_price) * 100, trade.price)
                   ELSE Frac((current_price - trade.price) * 100, trade.price)
             IN  IF FLess(edge_pct, FInt(min_edge_pct))
                 THEN Fail("Edge below minimum") ELSE Pass("Edge OK")

\* Faulty variant: an open position in the market is not looked for
check_position_limits_no_dup(p, trade, their_net_worth) ==
    LET bet_size == calculate_position_size(get_net_worth(p),
                        trade.size * trade.price, their_net_worth)
    IN  IF FLess(FInt(bet_size), min_bet_size_usd)
        THEN Fail("Bet size below minimum")
        ELSE IF bet_size > max_bet_size_usd
        THEN Fail("Bet size above maximum")
        ELSE Pass("Position size OK")

\* Faulty variant: the sized bet is not compared with the minimum
check_position_limits_no_min(p, trade, their_net_worth) ==
    IF has_position(p, trade.condition_id)
    THEN Fail("Already have position in this market")
    ELSE IF calculate_position_size(get_net_worth(p), trade.size * trade.price,
                                    their_net_worth) > max_bet_size_usd
    THEN Fail("Bet size above maximum")
    ELSE Pass("Position size OK")

check_position_limits(p, trade, their_net_worth) ==
    IF has_position(p, trade.condition_id)
    THEN Fail("Already have position in this market")
    ELSE LET bet_size == calculate_position_size(get_net_worth(p),
                             trade.size * trade.price, their_net_worth)
         IN  IF FLess(FInt(bet_size), min_bet_size_usd)
             THEN Fail("Bet size below minimum")
             ELSE IF bet_size > max_bet_size_usd
             THEN Fail("Bet size above maximum")
             ELSE Pass("Position size OK")

\* _check_price_movement: divides by trade.price
check_price_movement(trade, market_data) ==
    LET current_price == get_current_price(market_data, trade.asset)
    IN  IF current_price = NoPrice THEN Fail("Could not get current price")
        ELSE IF trade.price = 0 THEN Raised
        ELSE IF FLess(FInt(max_price_movement_pct),
                      Frac(Abs(current_price - trade.price) * 100, Abs(trade.price)))
        THEN Fail("Price moved too much") ELSE Pass("Price movement OK")

\* The list validate_trade builds, in its order.  p2 is the portfolio after
\* update_daily_stats and update_drawdown, which the daily-loss and drawdown
\* checks run first.
CheckList(trade, their_net_worth, market_data, p2) ==
    << check_price_sanity(trade),
       check_outcome_matching(trade, market_data),
       check_duplicate(trade),
       check_liquidity(market_data),
       check_market_closing(market_data),
       check_volume(market_data),
       check_spread(market_data),
       check_trade_age(trade),
       check_rate_limit(p2),
       check_daily_loss_limit(p2),
       check_drawdown_protection(p2),
       check_minimum_edge(trade, market_data),
       check_position_limits(p2, trade, their_net_worth),
       check_price_movement(trade, market_data) >>

FailingIndices(checks) == {i \in DOMAIN checks : ~checks[i].passed}

\* Faulty variant: the loop keeps the last failing result
FirstFailing_last(checks) ==
    checks[CHOOSE i \in FailingIndices(checks) :
              \A j \in FailingIndices(checks) : j <= i]

\* the loop over the results: the first one that did not pass
FirstFailing(checks) ==
    checks[CHOOSE i \in FailingIndices(checks) :
              \A j \in FailingIndices(checks) : i <= j]

\* validate_trade, the loop over the finished list: u is the result of
\* update_drawdown on p1, the portfolio after update_daily_stats
validate_checks(checks, p1, u) ==
    IF u.raised
    THEN [result |-> "raise", reason |-> "exception", pm |-> p1]
    ELSE IF \E i \in DOMAIN checks : checks[i].raised
    THEN [result |-> "raise", reason |-> "exception", pm |-> u.pm]
    ELSE IF FailingIndices(checks) # {}
    THEN [result |-> "fail", reason |-> FirstFailing(checks).reason, pm |-> u.pm]
    ELSE [result |-> "pass", reason |-> "All checks passed", pm |-> u.pm]

\* validate_trade, the construction of the list: every check is evaluated
\* while the list is built, so the refreshes of the daily stats and of the
\* drawdown happen whatever the outcome
validate_build(trade, their_net_worth, market_data, p1, u) ==
    validate_checks(CheckList(trade, their_net_worth, market_data, u.pm), p1, u)

\* validate_trade on the market data already looked up.  An exception in a
\* check (zero high-water mark in update_drawdown, zero trade price in the
\* edge check) leaves validate_trade by raising.
validate_trade(trade, their_net_worth, market_data, p) ==
    IF market_data = NoData
    THEN [result |-> "fail", reason |-> "Could not fetch market data", pm |-> p]
    ELSE validate_build(trade, their_net_worth, market_data,
                        update_daily_stats(p),
                        update_drawdown(update_daily_stats(p)))

-----------------------------------------------------------------------------
(* TelegramNotifier (src/trader/telegram_notifier.py).  Each operator says *)
(* whether the call raises.  Every notify_* method reads                   *)
(* config.ENABLE_TELEGRAM once its own TELEGRAM[...] flag is true, and     *)
(* config.py defines no such attribute.                                    *)

TELEGRAM_notify_trades == TRUE
TELEGRAM_notify_errors == TRUE
ENABLE_TELEGRAM_defined == FALSE

notify_trade_executed_raises == TELEGRAM_notify_trades /\ ~ENABLE_TELEGRAM_defined
notify_error_raises == TELEGRAM_notify_errors /\ ~ENABLE_TELEGRAM_defined

\* on_trade_detected passes reason=..., notify_trade_rejected takes
\* (trade_info, failures, trade_timestamp): the call is a TypeError
notify_trade_rejected_raises == TRUE

-----------------------------------------------------------------------------
(* OrderExecutor.execute_order (src/trader/order_executor.py): simulation  *)
(* always succeeds, a live order succeeds when the execution service       *)
(* answers with an order id (response)                                     *)

execute_order(trade, size_usd, response) ==
    IF cfg.dry_run THEN TRUE ELSE response = "ok"

\* config.EXECUTION; the executor's clock counts half seconds
max_retries == 3
total_timeout == 6
retry_delay == 1

\* _simulate_order: success with a made-up identifier; service_calls counts
\* the calls of the execution service
simulate_order(trade, size_usd) ==
    [success |-> TRUE, order_id |-> "DRY_RUN", error |-> "", attempts |-> 0,
     service_calls |-> 0, starts |-> <<>>]

\* Faulty variant: an answer without an identifier counts as a fill
attempt_any_answer(trade, answer) ==
    IF trade.price = 0
    THEN [ok |-> FALSE, error |-> "ZeroDivisionError", called |-> FALSE]
    ELSE IF answer.kind = "raise"
    THEN [ok |-> FALSE, error |-> "exception", called |-> TRUE]
    ELSE [ok |-> TRUE, error |-> "", called |-> TRUE]

\* _execute_real_order, the try block of one attempt: the token size is
\* size_usd / price, the order is created and posted, and the answer is a
\* success when it carries an orderID.  Everything else is an error that the
\* loop handles: the division by a zero price, an exception of the client, an
\* answer without orderID, and the AttributeError of result.get on no answer.
attempt(trade, answer) ==
    IF trade.price = 0
    THEN [ok |-> FALSE, error |-> "ZeroDivisionError", called |-> FALSE]
    ELSE IF answer.kind = "raise"
    THEN [ok |-> FALSE, error |-> "exception", called |-> TRUE]
    ELSE IF answer.kind = "id"
    THEN [ok |-> TRUE, error |-> "", called |-> TRUE]
    ELSE IF answer.kind = "no_id"
    THEN [ok |-> FALSE, error |-> "order error", called |-> TRUE]
    ELSE [ok |-> FALSE, error |-> "AttributeError", called |-> TRUE]

\* Faulty variant: the loop does not look at the elapsed time
RECURSIVE real_order_loop_no_timeout(_, _, _, _, _, _)
real_order_loop_no_timeout(trade, answers, attempts, elapsed, posted, starts) ==
    IF attempts >= max_retries
    THEN [success |-> FALSE, order_id |-> "", error |-> "Failed after attempts",
          attempts |-> attempts, service_calls |-> posted, starts |-> starts]
    ELSE LET a == attempt(trade, answers[attempts + 1]) IN
           IF a.ok
           THEN [success |-> TRUE, order_id |-> "id", error |-> "",
                 attempts |-> attempts + 1,
                 service_calls |-> posted + 1, starts |-> Append(starts, elapsed)]
           ELSE IF attempts + 1 < max_retries
           THEN real_order_loop_no_timeout(trade, answers, attempts + 1,
                    (IF a.called THEN elapsed + answers[attempts + 1].duration
                     ELSE elapsed) + retry_delay,
                    IF a.called THEN posted + 1 ELSE posted,
                    Append(starts, elapsed))
           ELSE [success |-> FALSE, order_id |-> "", error |-> a.error,
                 attempts |-> attempts + 1,
                 service_calls |-> IF a.called THEN posted + 1 ELSE posted,
                 starts |-> Append(starts, elapsed)]

\* _execute_real_order, the while loop from its condition on.  attempts,
\* elapsed (time since start_time), posted and starts (the elapsed time at
\* which each attempt began) are the loop's state; answers[n] is what the
\* execution service does on attempt n and how long it takes.
RECURSIVE real_order_loop(_, _, _, _, _, _)
real_order_loop(trade, answers, attempts, elapsed, posted, starts) ==
    IF attempts >= max_retries
    THEN [success |-> FALSE, order_id |-> "", error |-> "Failed after attempts",
          attempts |-> attempts, service_calls |-> posted, starts |-> starts]
    ELSE IF elapsed >= total_timeout
    THEN [success |-> FALSE, order_id |-> "", error |-> "Timeout",
          attempts |-> attempts, service_calls |-> posted, starts |-> starts]
    ELSE LET a == attempt(trade, answers[attempts + 1]) IN
           IF a.ok
           THEN [success |-> TRUE, order_id |-> "id", error |-> "",
                 attempts |-> attempts + 1,
                 service_calls |-> posted + 1, starts |-> Append(starts, elapsed)]
           ELSE IF attempts + 1 < max_retries
           THEN real_order_loop(trade, answers, attempts + 1,
                    (IF a.called THEN elapsed + answers[attempts + 1].duration
                     ELSE elapsed) + retry_delay,
                    IF a.called THEN posted + 1 ELSE posted,
                    Append(starts, elapsed))
           ELSE [success |-> FALSE, order_id |-> "", error |-> a.error,
                 attempts |-> attempts + 1,
                 service_calls |-> IF a.called THEN posted + 1 ELSE posted,
                 starts |-> Append(starts, elapsed)]

\* _execute_real_order
execute_real_order(trade, size_usd, answers) ==
    real_order_loop(trade, answers, 0, 0, 0, <<>>)

\* Faulty variant: the simulation posts the order as well
submit_order_always_live(dry_run, trade, size_usd, answers) ==
    execute_real_order(trade, size_usd, answers)

\* OrderExecutor.execute_order with its answers spelt out
submit_order(dry_run, trade, size_usd, answers) ==
    IF dry_run THEN simulate_order(trade, size_usd)
    ELSE execute_real_order(trade, size_usd, answers)

-----------------------------------------------------------------------------
(* CopycatBot.on_trade_detected (src/trader/copycat_bot.py)                *)

NoCallback ==
    [called |-> FALSE, tx |-> 0, ts |-> 0, wm |-> 0, via |-> "", tripped |-> FALSE,
     outcome |-> "", reason |-> "", raised |-> FALSE, validated |-> FALSE,
     submitted |-> FALSE, notional |-> 0, add_existing |-> FALSE, addr |-> "",
     md_found |-> FALSE, md_time |-> 0, notified |-> "", handler |-> FALSE]

\* the except-Exception handler of on_trade_detected: it calls notify_error,
\* whose own exception leaves the callback.  In the record of a callback,
\* handler says that this handler ran and notified which notification call
\* returned normally.
HandlerRaises == notify_error_raises

\* Faulty variant: the position and the trade are recorded whatever the
\* submission reported
execute_and_record_always(trade, response, r, cache, p, vb, our_bet_usd) ==
    IF cfg.target_net_worth = 0 \/ get_net_worth(p) = 0
    THEN [pm |-> p, rm |-> r, cache |-> cache,
          cb |-> [vb EXCEPT !.outcome = "error", !.raised = HandlerRaises]]
    ELSE [pm |-> record_trade(
                    add_position(p, trade.condition_id, trade.asset, trade.side,
                                 Frac(our_bet_usd, trade.price), FInt(trade.price)),
                    trade.condition_id, our_bet_usd),
          rm |-> r, cache |-> cache,
          cb |-> [vb EXCEPT !.outcome = IF execute_order(trade, our_bet_usd, response)
                                        THEN "executed" ELSE "exec_failed",
                            !.submitted = TRUE,
                            !.notional = our_bet_usd,
                            !.add_existing = has_position(p, trade.condition_id),
                            !.raised = HandlerRaises]]

\* Faulty variant: the books are written only once the execution
\* notification went through
execute_and_record_notify_first(trade, response, r, cache, p, vb, our_bet_usd) ==
    IF cfg.target_net_worth = 0 \/ get_net_worth(p) = 0
    THEN \* the sizing printout divides by both net worths
         [pm |-> p, rm |-> r, cache |-> cache,
          cb |-> [vb EXCEPT !.outcome = "error", !.handler = TRUE,
                            !.raised = HandlerRaises]]
    ELSE IF execute_order(trade, our_bet_usd, response)
    THEN [pm |-> IF notify_trade_executed_raises THEN p
                 ELSE record_trade(
                    add_position(p, trade.condition_id, trade.asset, trade.side,
                                 Frac(our_bet_usd, trade.price), FInt(trade.price)),
                    trade.condition_id, our_bet_usd),
          rm |-> r, cache |-> cache,
          cb |-> [vb EXCEPT !.outcome = "executed", !.submitted = TRUE,
                            !.notional = our_bet_usd,
                            !.add_existing = has_position(p, trade.condition_id),
                            !.notified = IF notify_trade_executed_raises
                                         THEN "" ELSE "executed",
                            !.handler = notify_trade_executed_raises,
                            !.raised = notify_trade_executed_raises /\ HandlerRaises]]
    ELSE [pm |-> p, rm |-> r, cache |-> cache,
          cb |-> [vb EXCEPT !.outcome = "exec_failed", !.submitted = TRUE,
                            !.notional = our_bet_usd,
                            !.notified = IF notify_error_raises THEN "" ELSE "error",
                            !.handler = notify_error_raises,
                            !.raised = notify_error_raises /\ HandlerRaises]]

\* on_trade_detected from the order on: our_bet_usd is the notional sized
\* on the portfolio p validation left
execute_and_record(trade, response, r, cache, p, vb, our_bet_usd) ==
    IF cfg.target_net_worth = 0 \/ get_net_worth(p) = 0
    THEN \* the sizing printout divides by both net worths
         [pm |-> p, rm |-> r, cache |-> cache,
          cb |-> [vb EXCEPT !.outcome = "error", !.handler = TRUE,
                            !.raised = HandlerRaises]]
    ELSE IF execute_order(trade, our_bet_usd, response)
    THEN [pm |-> record_trade(
                    add_position(p, trade.condition_id, trade.asset, trade.side,
                                 Frac(our_bet_usd, trade.price), FInt(trade.price)),
                    trade.condition_id, our_bet_usd),
          rm |-> r, cache |-> cache,
          cb |-> [vb EXCEPT !.outcome = "executed", !.submitted = TRUE,
                            !.notional = our_bet_usd,
                            !.add_existing = has_position(p, trade.condition_id),
                            !.notified = IF notify_trade_executed_raises
                                         THEN "" ELSE "executed",
                            !.handler = notify_trade_executed_raises,
                            !.raised = notify_trade_executed_raises /\ HandlerRaises]]
    ELSE [pm |-> p, rm |-> r, cache |-> cache,
          cb |-> [vb EXCEPT !.outcome = "exec_failed", !.submitted = TRUE,
                            !.notional = our_bet_usd,
                            !.notified = IF notify_error_raises THEN "" ELSE "error",
                            !.handler = notify_error_raises,
                            !.raised = notify_error_raises /\ HandlerRaises]]

\* Faulty variant: a failed validation is notified and the order is sized
\* and submitted all the same
after_validation_no_return(trade, response, r, cache, v, vb) ==
    IF v.result = "raise"
    THEN [pm |-> v.pm, rm |-> r, cache |-> cache,
          cb |-> [vb EXCEPT !.outcome = "error", !.handler = TRUE,
                            !.raised = HandlerRaises]]
    ELSE execute_and_record(trade, response, r, cache, v.pm, vb,
             calculate_position_size(get_net_worth(v.pm), trade.size * trade.price,
                                     cfg.target_net_worth))

\* on_trade_detected from the validation result v on
after_validation(trade, response, r, cache, v, vb) ==
    IF v.result = "raise"
    THEN [pm |-> v.pm, rm |-> r, cache |-> cache,
          cb |-> [vb EXCEPT !.outcome = "error", !.handler = TRUE,
                            !.raised = HandlerRaises]]
    ELSE IF v.result = "fail"
    THEN [pm |-> v.pm, rm |-> r, cache |-> cache,
          cb |-> [vb EXCEPT !.outcome = "rejected",
                            !.notified = IF notify_trade_rejected_raises
                                         THEN "" ELSE "rejected",
                            !.handler = notify_trade_rejected_raises,
                            !.raised = notify_trade_rejected_raises /\ HandlerRaises]]
    ELSE execute_and_record(trade, response, r, cache, v.pm, vb,
             calculate_position_size(get_net_worth(v.pm), trade.size * trade.price,
                                     cfg.target_net_worth))

\* on_trade_detected from the market data lookup g on
\* (md_found, md_time: whether _get_market_data returned a snapshot, and the
\* timestamp of the cache entry that holds it)
validate_and_execute(trade, response, b, g, v, base) ==
    after_validation(trade, response, b.rm, g.cache, v,
                     [base EXCEPT !.validated = TRUE, !.reason = v.reason,
                                  !.md_found = g.data # NoData,
                                  !.md_time = IF g.data = NoData THEN 0
                                              ELSE g.cache[trade.condition_id].timestamp])

\* Faulty variant: a false return of check_circuit_breakers does not end
\* the callback
after_circuit_breakers_no_gate(trade, fetched, response, b, g, base) ==
    IF b.raised
    THEN [pm |-> b.pm, rm |-> b.rm, cache |-> market_cache,
          cb |-> [base EXCEPT !.outcome = "error", !.raised = HandlerRaises]]
    ELSE validate_and_execute(trade, response, b, g,
             validate_trade(trade, cfg.target_net_worth, g.data, b.pm), base)

\* on_trade_detected from the result b of check_circuit_breakers on
after_circuit_breakers(trade, fetched, response, b, g, base) ==
    IF b.raised
    THEN [pm |-> b.pm, rm |-> b.rm, cache |-> market_cache,
          cb |-> [base EXCEPT !.outcome = "error", !.handler = TRUE,
                              !.raised = HandlerRaises]]
    ELSE IF ~b.ret
    THEN [pm |-> b.pm, rm |-> b.rm, cache |-> market_cache,
          cb |-> [base EXCEPT !.outcome = "skipped",
                              !.reason = b.rm.circuit_breaker_reason]]
    ELSE validate_and_execute(trade, response, b, g,
             validate_trade(trade, cfg.target_net_worth, g.data, b.pm), base)

\* The whole callback on the current state.  fetched is what the market data
\* service would answer, response what the execution service would answer.
\* Result: the new pm, rm and market_cache and the record of what happened;
\* raised says whether an exception left on_trade_detected.
on_trade_detected(trade, fetched, response) ==
    after_circuit_breakers(trade, fetched, response,
        check_circuit_breakers(rm, pm),
        get_market_data(market_cache, trade.condition_id, fetched),
        [NoCallback EXCEPT !.called = TRUE, !.tx = trade.tx,
                           !.ts = trade.timestamp,
                           !.tripped = rm.circuit_breaker_active])

-----------------------------------------------------------------------------
(* Inputs: the tracked account's trades and what the services may answer   *)

StartTime == 1000

AssetOf(condition_id) == IF condition_id = "m1" THEN "yes1" ELSE "yes2"

\* tx 1: 500 USD bought in m1.  tx 2: 1200 USD sold in m2, 30 s later.
\* tx 3: an older, smaller buy in m1.  tx 4: a record without a price (the
\* TradeEvent default 0).
Trades ==
    { [tx |-> 1, timestamp |-> StartTime, condition_id |-> "m1", asset |-> "yes1",
       side |-> "BUY", price |-> 50, size |-> 1000],
      [tx |-> 2, timestamp |-> StartTime + 30, condition_id |-> "m2", asset |-> "yes2",
       side |-> "SELL", price |-> 60, size |-> 2000],
      [tx |-> 3, timestamp |-> StartTime - 40, condition_id |-> "m1", asset |-> "yes1",
       side |-> "BUY", price |-> 50, size |-> 100],
      [tx |-> 4, timestamp |-> StartTime + 30, condition_id |-> "m2", asset |-> "yes2",
       side |-> "SELL", price |-> 0, size |-> 2000] }

TxIds == {t.tx : t \in Trades}

Snapshot(closed, endDate, volume24hr, tokens) ==
    [closed |-> closed, endDate |-> endDate, volume24hr |-> volume24hr,
     tokens |-> tokens]

Token(token_id, price) == [token_id |-> token_id, price |-> price]

\* What the market data service may answer for a market: an open liquid
\* market quoting the trade price, or the same market closed; or nothing.
Snapshots(condition_id) ==
    LET a    == AssetOf(condition_id)
        good == IF condition_id = "m1" THEN 50 ELSE 60
    IN  { Snapshot(FALSE, 0, 5000, <<Token(a, good)>>),
          Snapshot(TRUE, 0, 5000, <<Token(a, good)>>) }

Fetches(condition_id) == Snapshots(condition_id) \cup {NoData}
Responses == {"ok", "fail"}

-----------------------------------------------------------------------------
(* TradeMonitor (src/trader/websocket_monitor.py)                          *)

MaxBatch == 2       \* records in one poll response

RECURSIVE BatchesOfLen(_)
BatchesOfLen(n) ==
    IF n = 0 THEN {<<>>}
    ELSE {Append(b, t) : b \in BatchesOfLen(n - 1), t \in Trades}

\* poll responses: up to MaxBatch distinct records, in any order
Batches ==
    {b \in UNION {BatchesOfLen(n) : n \in 0..MaxBatch} :
        \A i, j \in DOMAIN b : i # j => b[i].tx # b[j].tx}

\* the tracked account, and another account whose trades the stream carries
target_account == "0xtarget"
Addresses == {target_account, "0xother"}

\* TradeMonitor.__init__ followed by start().  polls_started counts the poll
\* threads _start_polling has created, unopened_returns the connection
\* attempts since the last open that ended with run_forever returning
\* (counted up to MaxUnopened), emitted the timestamps of the events the
\* poll loop has passed to the callback from the response it holds,
\* descending whether the response being processed came newest first, and
\* passed_over the records that such a response listed after the event it
\* yielded although they were unseen and newer than the watermark of before
\* the poll.
StartedMonitor(use_websocket) ==
    [ use_websocket        |-> use_websocket,
      running              |-> TRUE,
      reconnect_attempts   |-> 0,
      seen_tx_hashes       |-> {},
      last_trade_timestamp |-> 0,
      ws_pc                |-> IF use_websocket THEN "connecting" ELSE "none",
      poll_pc              |-> IF use_websocket THEN "none" ELSE "fetch",
      polls_started        |-> IF use_websocket THEN 0 ELSE 1,
      unopened_returns     |-> 0,
      emitted              |-> <<>>,
      descending           |-> FALSE,
      passed_over          |-> {},
      trades               |-> <<>> ]

\* Faulty variant: the stream handler calls back for every account
ForTarget_any(addr) == TRUE

\* _on_ws_message: the message carries the address of the tracked account
ForTarget(addr) == addr = target_account

\* Faulty variant: the stream handler does not consult the seen set
WsAccepts_no_dedup(m, trade) == TRUE

\* _on_ws_message, duplicate detection: only the seen set is consulted
WsAccepts(m, trade) == trade.tx \notin m.seen_tx_hashes

\* Faulty variant: the poll loop does not compare with the watermark
PollAccepts_unseen(m, trade) == trade.tx \notin m.seen_tx_hashes

\* _polling_loop, the two skips: seen identifier, timestamp not newer
PollAccepts(m, trade) ==
    /\ trade.tx \notin m.seen_tx_hashes
    /\ trade.timestamp > m.last_trade_timestamp

\* Faulty variant: the identifier is remembered, the watermark stays
Accept_seen_only(m, trade) == [m EXCEPT !.seen_tx_hashes = @ \cup {trade.tx}]

\* both handlers: remember the identifier and move the watermark
Accept(m, trade) ==
    [m EXCEPT !.seen_tx_hashes = @ \cup {trade.tx},
              !.last_trade_timestamp = trade.timestamp]

\* _polling_loop: on_trade_callback(trade) is invoked
Emit(m, trade) == [m EXCEPT !.emitted = Append(@, trade.timestamp)]

\* a response as the Data API sorts it (sortDirection DESC), without ties
StrictlyDescending(b) ==
    \A i \in 1..(Len(b) - 1) : b[i].timestamp > b[i + 1].timestamp

\* _polling_loop, before the head of m.trades is accepted: the records the
\* response lists after it
PassOver(m) ==
    IF m.descending /\ m.emitted = <<>>
    THEN [m EXCEPT !.passed_over = @ \cup
            {m.trades[i].tx : i \in {k \in 2..Len(m.trades) :
                /\ m.trades[k].tx \notin m.seen_tx_hashes
                /\ m.trades[k].timestamp > m.last_trade_timestamp}}]
    ELSE m

\* Faulty variant: the record is marked after the callback, so not at all
\* when the callback raised
Marked_after(m, trade, c) == IF c.raised THEN m ELSE Accept(m, trade)

\* Faulty variant: a record whose callback was skipped on the tripped
\* breaker is left unmarked, to be taken up again
Marked_unless_skipped(m, trade, c) ==
    IF c.outcome = "skipped" THEN m ELSE Accept(m, trade)

\* both handlers mark the record before they invoke the callback, so
\* whatever the callback (c is its record) does
Marked(m, trade, c) == Accept(m, trade)

Bump(tx) == [calls EXCEPT ![tx] = IF @ < 2 THEN @ + 1 ELSE @]

\* the effect of one callback on everything but mon
RunCallback(trade, addr, via, fetched, response) ==
    \E r \in {on_trade_detected(trade, fetched, response)} :
        /\ pm' = r.pm
        /\ rm' = r.rm
        /\ market_cache' = r.cache
        /\ calls' = Bump(trade.tx)
        /\ cb' = [r.cb EXCEPT !.via = via, !.addr = addr,
                              !.wm = mon.last_trade_timestamp]

Quiet == /\ cb' = NoCallback
         /\ UNCHANGED <<pm, rm, market_cache, calls>>

\* _websocket_loop, the while condition
WsLoopTop(m) ==
    IF m.running /\ m.reconnect_attempts < max_reconnect_attempts
    THEN "connecting" ELSE "done"

\* Faulty variant: the loop exits after one iteration
PollLoopTop_once(m) == "done"

\* _polling_loop, the while condition
PollLoopTop(m) == IF m.running THEN "fetch" ELSE "done"

\* Faulty variant: the cap is compared with > instead of >=
WsAfterError_late(m) ==
    LET n == m.reconnect_attempts + 1
    IN  IF n > max_reconnect_attempts
        THEN [m EXCEPT !.reconnect_attempts = n,
                       !.use_websocket = FALSE,
                       !.poll_pc = PollLoopTop(m),
                       !.polls_started = IF @ < 2 THEN @ + 1 ELSE @,
                       !.ws_pc = "done"]
        ELSE [m EXCEPT !.reconnect_attempts = n, !.ws_pc = "sleeping"]

\* Faulty variant: at the cap the poll thread is started and the stream
\* loop is not left
WsAfterError_no_break(m) ==
    LET n == m.reconnect_attempts + 1
    IN  IF n >= max_reconnect_attempts
        THEN [m EXCEPT !.reconnect_attempts = n,
                       !.use_websocket = FALSE,
                       !.poll_pc = PollLoopTop(m),
                       !.polls_started = IF @ < 2 THEN @ + 1 ELSE @,
                       !.ws_pc = "sleeping"]
        ELSE [m EXCEPT !.reconnect_attempts = n, !.ws_pc = "sleeping"]

\* _websocket_loop, except branch: one more attempt counted; at the cap
\* use_websocket is cleared, _start_polling starts the poll thread and the
\* loop is left, otherwise the reconnect delay follows
WsAfterError(m) ==
    LET n == m.reconnect_attempts + 1
    IN  IF n >= max_reconnect_attempts
        THEN [m EXCEPT !.reconnect_attempts = n,
                       !.use_websocket = FALSE,
                       !.poll_pc = PollLoopTop(m),
                       !.polls_started = IF @ < 2 THEN @ + 1 ELSE @,
                       !.ws_pc = "done"]
        ELSE [m EXCEPT !.reconnect_attempts = n, !.ws_pc = "sleeping"]

\* Faulty variant: an exception ends the poll loop
PollAfterError_exits(m) ==
    [m EXCEPT !.trades = <<>>, !.descending = FALSE, !.poll_pc = "done"]

\* _polling_loop, except branch: the exception is logged, what is left of
\* the response is dropped, and the sleep follows
PollAfterError(m) ==
    [m EXCEPT !.trades = <<>>, !.descending = FALSE, !.poll_pc = "sleep"]

\* _on_ws_open
WsOpen ==
    /\ mon.ws_pc = "connecting"
    /\ mon' = [mon EXCEPT !.ws_pc = "open", !.reconnect_attempts = 0,
                          !.unopened_returns = 0]
    /\ Quiet
    /\ UNCHANGED <<now, frac, wallet, cfg, bot, sz, vt, ex, dh>>

\* _on_ws_message: a message of another account is dropped; one of the
\* tracked account goes through the seen set to the callback, whose
\* exception the handler catches
WsMessage ==
    /\ mon.ws_pc = "open"
    /\ \E trade \in Trades, addr \in Addresses :
         /\ addr = target_account => cfg.account_trades
         /\ IF ~ForTarget(addr)
            THEN /\ mon' = mon
                 /\ cb' = [NoCallback EXCEPT !.addr = addr]
                 /\ UNCHANGED <<pm, rm, market_cache, calls>>
            ELSE IF WsAccepts(mon, trade)
            THEN /\ \E fetched \in Fetches(trade.condition_id), response \in Responses :
                       RunCallback(trade, addr, "ws", fetched, response)
                 /\ mon' = Marked(mon, trade, cb')
            ELSE /\ mon' = mon
                 /\ Quiet
    /\ UNCHANGED <<now, frac, wallet, cfg, bot, sz, vt, ex, dh>>

\* _websocket_loop, except branch: _connect_websocket raised
WsRaise ==
    /\ mon.ws_pc \in {"connecting", "open"}
    /\ mon' = WsAfterError(mon)
    /\ Quiet
    /\ UNCHANGED <<now, frac, wallet, cfg, bot, sz, vt, ex, dh>>

\* _websocket_loop: the server ended the connection, run_forever returned
\* without raising and the loop goes round
WsReturn ==
    /\ mon.ws_pc = "open"
    /\ mon' = [mon EXCEPT !.ws_pc = WsLoopTop(mon)]
    /\ Quiet
    /\ UNCHANGED <<now, frac, wallet, cfg, bot, sz, vt, ex, dh>>

\* _websocket_loop: the connection could not be opened and run_forever,
\* having reported that to _on_ws_error and _on_ws_close, returned without
\* raising; the loop goes round with reconnect_attempts as it was
MaxUnopened == 11

WsRefused ==
    /\ mon.ws_pc = "connecting"
    /\ mon' = [mon EXCEPT !.ws_pc = WsLoopTop(mon),
                          !.unopened_returns = IF @ < MaxUnopened THEN @ + 1 ELSE @]
    /\ Quiet
    /\ UNCHANGED <<now, frac, wallet, cfg, bot, sz, vt, ex, dh>>

\* _websocket_loop: run_forever returned because stop() closed the stream
WsClosed ==
    /\ mon.ws_pc = "closed"
    /\ mon' = [mon EXCEPT !.ws_pc = WsLoopTop(mon)]
    /\ Quiet
    /\ UNCHANGED <<now, frac, wallet, cfg, bot, sz, vt, ex, dh>>

\* _websocket_loop: the reconnect delay is over
WsWake ==
    /\ mon.ws_pc = "sleeping"
    /\ mon' = [mon EXCEPT !.ws_pc = WsLoopTop(mon)]
    /\ Quiet
    /\ UNCHANGED <<now, frac, wallet, cfg, bot, sz, vt, ex, dh>>

\* what _fetch_recent_trades may return
Responses_of_feed == IF cfg.account_trades THEN Batches ELSE {<<>>}

\* _polling_loop: _fetch_recent_trades returned a response
PollFetch ==
    /\ mon.poll_pc = "fetch"
    /\ \E b \in Responses_of_feed :
          mon' = [mon EXCEPT !.trades = b, !.emitted = <<>>,
                             !.descending = StrictlyDescending(b),
                             !.poll_pc = "process"]
    /\ Quiet
    /\ UNCHANGED <<now, frac, wallet, cfg, bot, sz, vt, ex, dh>>

\* _polling_loop: _fetch_recent_trades raised
PollFetchFail ==
    /\ mon.poll_pc = "fetch"
    /\ mon' = PollAfterError(mon)
    /\ Quiet
    /\ UNCHANGED <<now, frac, wallet, cfg, bot, sz, vt, ex, dh>>

\* _polling_loop: one iteration of the for loop, or its end.  An exception
\* leaving the callback abandons the rest of the response.
PollStep ==
    /\ mon.poll_pc = "process"
    /\ IF mon.trades = <<>>
       THEN /\ mon' = [mon EXCEPT !.descending = FALSE, !.poll_pc = "sleep"]
            /\ Quiet
       ELSE LET trade == Head(mon.trades)
            IN  IF PollAccepts(mon, trade)
                THEN \E fetched \in Fetches(trade.condition_id), response \in Responses :
                        /\ RunCallback(trade, target_account, "poll", fetched, response)
                        /\ mon' = IF cb'.raised
                                  THEN PollAfterError(
                                           Emit(Marked(PassOver(mon), trade, cb'), trade))
                                  ELSE [Emit(Marked(PassOver(mon), trade, cb'), trade)
                                           EXCEPT !.trades = Tail(@)]
                ELSE /\ mon' = [mon EXCEPT !.trades = Tail(@)]
                     /\ Quiet
    /\ UNCHANGED <<now, frac, wallet, cfg, bot, sz, vt, ex, dh>>

\* _polling_loop: time.sleep(POLLING_INTERVAL) is over and the while
\* condition is evaluated
PollWake ==
    /\ mon.poll_pc = "sleep"
    /\ mon' = [mon EXCEPT !.poll_pc = PollLoopTop(mon)]
    /\ Quiet
    /\ UNCHANGED <<now, frac, wallet, cfg, bot, sz, vt, ex, dh>>

-----------------------------------------------------------------------------
(* Shutdown: CopycatBot.start / stop / _signal_handler                     *)
(* (src/trader/copycat_bot.py) and TradeMonitor.stop                       *)

\* CopycatBot.start() has set running, started the monitor and entered its
\* while loop.  signalled and monitor_stops record whether a signal was
\* handled and how often TradeMonitor.stop was invoked.
StartedBot ==
    [running |-> TRUE, main_pc |-> "loop", signalled |-> FALSE, monitor_stops |-> 0]

\* TradeMonitor.stop up to the joins: the flag is cleared and self.ws, if
\* set, is closed.  An open stream is closed; a connection that is being set
\* up is closed only if self.ws already refers to it (closes).
monitor_stop(m, closes) ==
    [m EXCEPT !.running = FALSE,
              !.ws_pc = IF @ = "open" \/ (@ = "connecting" /\ closes)
                        THEN "closed" ELSE @]

\* _signal_handler, installed for SIGINT and SIGTERM: it clears running
Signal ==
    /\ bot.running
    /\ bot.main_pc \in {"loop", "finally"}
    /\ bot' = [bot EXCEPT !.running = FALSE, !.signalled = TRUE]
    /\ mon' = mon
    /\ Quiet
    /\ UNCHANGED <<now, frac, wallet, cfg, sz, vt, ex, dh>>

\* start(): the while loop finds running cleared and the finally clause is
\* entered
MainLoopExit ==
    /\ bot.main_pc = "loop"
    /\ ~bot.running
    /\ bot' = [bot EXCEPT !.main_pc = "finally"]
    /\ mon' = mon
    /\ Quiet
    /\ UNCHANGED <<now, frac, wallet, cfg, sz, vt, ex, dh>>

\* start(): an exception in the try block; the finally clause is entered
\* with running still set
MainError ==
    /\ bot.main_pc = "loop"
    /\ bot.running
    /\ bot' = [bot EXCEPT !.main_pc = "finally"]
    /\ mon' = mon
    /\ Quiet
    /\ UNCHANGED <<now, frac, wallet, cfg, sz, vt, ex, dh>>

\* CopycatBot.stop(), called by the finally clause: it returns at once
\* unless running is set; otherwise it clears running and calls
\* TradeMonitor.stop, which clears the monitor's flag, closes the stream and
\* goes on to the joins
BotStop ==
    /\ bot.main_pc = "finally"
    /\ IF ~bot.running
       THEN /\ bot' = [bot EXCEPT !.main_pc = "done"]
            /\ mon' = mon
       ELSE /\ bot' = [bot EXCEPT !.running = FALSE, !.main_pc = "joining",
                                  !.monitor_stops = IF @ < 2 THEN @ + 1 ELSE @]
            /\ \E closes \in BOOLEAN : mon' = monitor_stop(mon, closes)
    /\ Quiet
    /\ UNCHANGED <<now, frac, wallet, cfg, sz, vt, ex, dh>>

\* TradeMonitor.stop: both join(timeout=5) calls are over, the thread having
\* ended or not; CopycatBot.stop prints the statistics and returns
StopReturn ==
    /\ bot.main_pc = "joining"
    /\ bot' = [bot EXCEPT !.main_pc = "done"]
    /\ mon' = mon
    /\ Quiet
    /\ UNCHANGED <<now, frac, wallet, cfg, sz, vt, ex, dh>>

-----------------------------------------------------------------------------
(* Environment: the clock, the operator, the wallet                        *)

\* the instants the clock visits: the start, 30 s later, and the same two
\* instants of the next day
Times == {StartTime, StartTime + 30,
          StartTime + SECONDS_PER_DAY, StartTime + SECONDS_PER_DAY + 30}

Tick ==
    /\ \E t \in Times : t > now /\ now' = t
    /\ cb' = NoCallback
    /\ UNCHANGED <<frac, wallet, cfg, pm, rm, market_cache, mon, bot, calls, sz, vt,
                   ex, dh>>

\* the operator calls RiskManager.reset_circuit_breaker
ResetCircuitBreaker ==
    /\ rm.circuit_breaker_active
    /\ rm' = reset_circuit_breaker(rm)
    /\ cb' = NoCallback
    /\ UNCHANGED <<now, frac, wallet, cfg, pm, market_cache, mon, bot, calls, sz, vt,
                   ex, dh>>

NetWorths == {80000, 85000, 100000}

\* the balance or the value of the open positions moved
WalletChange ==
    /\ \E w \in NetWorths : w # wallet /\ wallet' = w
    /\ cb' = NoCallback
    /\ UNCHANGED <<now, frac, cfg, pm, rm, market_cache, mon, bot, calls, sz, vt,
                   ex, dh>>

-----------------------------------------------------------------------------
(* Specifications                                                          *)

IdleSizer == sz = [phase |-> "idle", bet |-> 0, bet2 |-> 0, their |-> 0,
                   our |-> 0, out |-> 0, out2 |-> 0]
IdleValidator == vt = [phase |-> "idle"]
IdleExecutor == ex = [phase |-> "idle"]
IdleDrawdown == dh = [phase |-> "idle"]

\* dry_run, use_websocket, target net worth, initial capital: the default
\* simulation, live trading over the stream, an empty and a 7-cent bankroll,
\* and a target whose net worth could not be determined
Configs ==
    { <<TRUE, FALSE, 1000000, 100000>>,
      <<FALSE, TRUE, 1000000, 100000>>,
      <<FALSE, FALSE, 1000000, 0>>,
      <<TRUE, FALSE, 1000000, 7>>,
      <<TRUE, TRUE, 0, 100000>> }

\* CopycatBot.__init__ and start(): the bot as wired, PositionManager()
\* without a wallet address
Init ==
    /\ now = StartTime
    /\ frac = 0
    /\ wallet = 0
    /\ \E c \in Configs :
          /\ cfg = [dry_run |-> c[1], bankroll_mode |-> "fixed",
                    target_net_worth |-> c[3], use_websocket |-> c[2],
                    account_trades |-> TRUE]
          /\ pm = NewPositionManager(c[4], "")
    /\ rm = NewRiskManager
    /\ market_cache = <<>>
    /\ mon = StartedMonitor(cfg.use_websocket)
    /\ bot = StartedBot
    /\ calls = [tx \in TxIds |-> 0]
    /\ cb = NoCallback
    /\ IdleSizer
    /\ IdleValidator
    /\ IdleExecutor
    /\ IdleDrawdown

Next ==
    \/ WsOpen \/ WsMessage \/ WsRaise \/ WsReturn \/ WsWake
    \/ PollFetch \/ PollFetchFail \/ PollStep \/ PollWake
    \/ Tick \/ ResetCircuitBreaker

Spec == Init /\ [][Next]_vars

\* The same bot around a PositionManager built with a wallet address in
\* dynamic bankroll mode: net worth is the live wallet reading
InitDyn ==
    /\ now = StartTime
    /\ frac = 0
    /\ wallet \in {0, 100000}
    /\ cfg \in [dry_run : {TRUE}, bankroll_mode : {"dynamic"},
                target_net_worth : {1000000}, use_websocket : {FALSE},
                account_trades : {TRUE}]
    /\ pm = NewPositionManager(wallet, "0xours")
    /\ rm = NewRiskManager
    /\ market_cache = <<>>
    /\ mon = StartedMonitor(cfg.use_websocket)
    /\ bot = StartedBot
    /\ calls = [tx \in TxIds |-> 0]
    /\ cb = NoCallback
    /\ IdleSizer
    /\ IdleValidator
    /\ IdleExecutor
    /\ IdleDrawdown

NextDyn ==
    \/ PollFetch \/ PollFetchFail \/ PollStep \/ PollWake
    \/ Tick \/ ResetCircuitBreaker \/ WalletChange

SpecDyn == InitDyn /\ [][NextDyn]_vars

\* The bot from start() to the end of its shutdown, while the tracked
\* account does not trade; the stream still carries other accounts' trades
InitLife ==
    /\ now = StartTime
    /\ frac = 0
    /\ wallet = 0
    /\ cfg \in [dry_run : {TRUE}, bankroll_mode : {"fixed"},
                target_net_worth : {1000000}, use_websocket : BOOLEAN,
                account_trades : {FALSE}]
    /\ pm = NewPositionManager(100000, "")
    /\ rm = NewRiskManager
    /\ market_cache = <<>>
    /\ mon = StartedMonitor(cfg.use_websocket)
    /\ bot = StartedBot
    /\ calls = [tx \in TxIds |-> 0]
    /\ cb = NoCallback
    /\ IdleSizer
    /\ IdleValidator
    /\ IdleExecutor
    /\ IdleDrawdown

NextLife ==
    \/ WsOpen \/ WsMessage \/ WsRaise \/ WsReturn \/ WsRefused \/ WsClosed \/ WsWake
    \/ PollFetch \/ PollFetchFail \/ PollStep \/ PollWake
    \/ Signal \/ MainLoopExit \/ MainError \/ BotStop \/ StopReturn

\* Fairness: every step that only needs the thread to be scheduled, a timer
\* to expire or a call with a timeout to end is taken.  The server ending or
\* breaking an established stream (WsReturn, WsRaise while open), signals and
\* errors are left to the environment.
FairLife ==
    /\ WF_vars(MainLoopExit) /\ WF_vars(BotStop) /\ WF_vars(StopReturn)
    /\ WF_vars(WsClosed) /\ WF_vars(WsWake)
    /\ WF_vars(mon.ws_pc = "connecting" /\ (WsOpen \/ WsRaise))
    /\ WF_vars(PollFetch \/ PollFetchFail) /\ WF_vars(PollStep) /\ WF_vars(PollWake)

SpecLife == InitLife /\ [][NextLife]_vars /\ FairLife

-----------------------------------------------------------------------------
(* Sizer harness: the inputs are drawn at Init, SizerApply evaluates       *)
(* calculate_position_size on two notionals with the same net worths.      *)

OurWorths == {-100, 0, 7, 10006, 100000, 1000000, 2000000}
TheirWorths == {0, 1000000, 5000000}
Bets == {-100, 0, 1, 50000, 250000, 1250000, 1250001, 3000000}

\* everything but the harness variables, at rest
BotAtRest ==
    /\ now = StartTime
    /\ frac = 0
    /\ wallet = 0
    /\ cfg = [dry_run |-> TRUE, bankroll_mode |-> "fixed",
              target_net_worth |-> 1000000, use_websocket |-> FALSE,
              account_trades |-> TRUE]
    /\ pm = NewPositionManager(100000, "")
    /\ rm = NewRiskManager
    /\ market_cache = <<>>
    /\ mon = StartedMonitor(FALSE)
    /\ bot = StartedBot
    /\ calls = [tx \in TxIds |-> 0]
    /\ cb = NoCallback

InitSizer ==
    /\ BotAtRest
    /\ IdleValidator
    /\ IdleExecutor
    /\ IdleDrawdown
    /\ sz \in [phase : {"in"}, bet : Bets, bet2 : Bets, their : TheirWorths,
                our : OurWorths, out : {0}, out2 : {0}]

SizerApply ==
    /\ sz.phase = "in"
    /\ sz' = [sz EXCEPT !.phase = "out",
                        !.out = calculate_position_size(sz.our, sz.bet, sz.their),
                        !.out2 = calculate_position_size(sz.our, sz.bet2, sz.their)]
    /\ UNCHANGED <<botVars, vt, ex, dh>>

SizerNext == SizerApply

SpecSizer == InitSizer /\ [][SizerNext]_vars

-----------------------------------------------------------------------------
(* Validator harness: a trade, a market data answer and a portfolio are    *)
(* drawn at Init, ValidateApply evaluates validate_trade on them.          *)

\* trades of the tracked account in m1: in range, without a price, above
\* max_price; fresh or 100 s old; either side
ValidatorTrades ==
    { [tx |-> 1, timestamp |-> ts, condition_id |-> "m1", asset |-> "yes1",
       side |-> side, price |-> price, size |-> 1000] :
      ts \in {StartTime, StartTime - 100}, side \in {"BUY", "SELL"},
      price \in {0, 50, 100} }

\* market data answers for m1: open or closed; no end date, one an hour
\* away, one two days away; volume below or at the minimum; no token, the
\* trade price, or a price that moved
ValidatorData ==
    { Snapshot(closed, endDate, volume, tokens) :
        closed \in BOOLEAN,
        endDate \in {0, StartTime + SECONDS_PER_HOUR, StartTime + 2 * SECONDS_PER_DAY},
        volume \in {1000, 5000},
        tokens \in {<<>>, <<Token("yes1", 50)>>, <<Token("yes1", 40)>>} }
    \cup {NoData}

\* portfolios: with or without a position in m1, daily PnL at 0 or at -6 %,
\* at or below the high-water mark, daily statistics of today or of
\* yesterday, and no recent trade, one 10 s ago, or max_trades_per_hour of
\* them in the last hour
ValidatorPortfolios ==
    LET fresh == NewPositionManager(100000, "")
        hist(n) == [i \in 1..n |-> [timestamp |-> HALVES_PER_SECOND * (StartTime - 100),
                                    condition_id |-> "m2", cost |-> 100]]
    IN  { [ (IF held
             THEN add_position(fresh, "m1", "yes1", "BUY", FInt(100), FInt(50))
             ELSE fresh)
            EXCEPT !.daily_pnl = pnl,
                   !.daily_reset_day = day,
                   !.peak_net_worth = peak,
                   !.last_trade_time = IF recent = "none" THEN 0 ELSE StartTime - 10,
                   !.trade_history = IF recent = "busy" THEN hist(max_trades_per_hour)
                                     ELSE <<>> ] :
          held \in BOOLEAN, pnl \in {0, -6000}, peak \in {100000, 200000},
          day \in {Day(StartTime), Day(StartTime) - 1},
          recent \in {"none", "soon", "busy"} }

InitValidate ==
    /\ BotAtRest
    /\ IdleSizer
    /\ IdleExecutor
    /\ IdleDrawdown
    /\ vt \in [phase : {"in"}, trade : ValidatorTrades, data : ValidatorData,
                p : ValidatorPortfolios, result : {""}, reason : {""}]

ValidateApply ==
    /\ vt.phase = "in"
    /\ \E v \in {validate_trade(vt.trade, cfg.target_net_worth, vt.data, vt.p)} :
          vt' = [vt EXCEPT !.phase = "out", !.result = v.result,
                           !.reason = v.reason, !.p = v.pm]
    /\ UNCHANGED <<botVars, sz, ex, dh>>

ValidateNext == ValidateApply

SpecValidate == InitValidate /\ [][ValidateNext]_vars

-----------------------------------------------------------------------------
(* Executor harness: a trade, a notional and what the execution service    *)
(* does on each attempt are drawn at Init, ExecApply evaluates             *)
(* execute_order on them.                                                  *)

\* a trade at 0.50 and a record without a price
ExecTrades == {t \in Trades : t.tx \in {1, 4}}
ExecNotionals == {0, 5000}

\* the execution service answers with an order id, with an error, with
\* nothing, or the client raises; at once, after a second, or after three
AnswerKinds == {"id", "no_id", "none", "raise"}
AnswerDurations == {0, 2, 6}
Answers == [1..max_retries -> [kind : AnswerKinds, duration : AnswerDurations]]

InitExec ==
    /\ BotAtRest
    /\ IdleSizer
    /\ IdleValidator
    /\ IdleDrawdown
    /\ ex \in [phase : {"in"}, dry_run : BOOLEAN, trade : ExecTrades,
                size_usd : ExecNotionals, answers : Answers]

ExecApply ==
    /\ ex.phase = "in"
    /\ ex' = [phase |-> "out", dry_run |-> ex.dry_run, trade |-> ex.trade,
              size_usd |-> ex.size_usd, answers |-> ex.answers,
              out |-> submit_order(ex.dry_run, ex.trade, ex.size_usd, ex.answers)]
    /\ UNCHANGED <<botVars, sz, vt, dh>>

ExecNext == ExecApply

SpecExec == InitExec /\ [][ExecNext]_vars

-----------------------------------------------------------------------------
(* Rate-limit harness: a long run of callbacks for trades that pass every  *)
(* other check and are filled, on a clock that advances between them in    *)
(* half seconds.  Of the callback it keeps what the rate limit reads and   *)
(* writes: _check_rate_limit on the portfolio, then record_trade.          *)

\* the clock advances by 29.5 s or by 30 s, up to RateHorizon half seconds
\* after the start
RateSteps == {59, 60}
RateHorizon == 660

InitRate ==
    /\ BotAtRest
    /\ IdleSizer
    /\ IdleValidator
    /\ IdleExecutor
    /\ IdleDrawdown

RateAdvance ==
    /\ \E d \in RateSteps :
          /\ Clock + d <= HALVES_PER_SECOND * StartTime + RateHorizon
          /\ now' = (Clock + d) \div HALVES_PER_SECOND
          /\ frac' = (Clock + d) % HALVES_PER_SECOND
    /\ cb' = NoCallback
    /\ UNCHANGED <<wallet, cfg, pm, rm, market_cache, mon, bot, calls, sz, vt, ex, dh>>

RateCallback ==
    /\ \E c \in {check_rate_limit(pm)} :
          /\ pm' = IF c.passed THEN record_trade(pm, "m1", 100) ELSE pm
          /\ cb' = [NoCallback EXCEPT
                       !.called = TRUE, !.validated = TRUE, !.reason = c.reason,
                       !.submitted = c.passed,
                       !.outcome = IF c.passed THEN "executed" ELSE "rejected"]
    /\ UNCHANGED <<now, frac, wallet, cfg, rm, market_cache, mon, bot, calls, sz,
                   vt, ex, dh>>

RateNext == RateAdvance \/ RateCallback

SpecRate == InitRate /\ [][RateNext]_vars

-----------------------------------------------------------------------------
(* Drawdown harness: a PositionManager in dynamic mode, initialized with   *)
(* the wallet reading of that moment, on which update_drawdown is called   *)
(* again and again while the wallet moves.                                 *)

DrawdownReadings == {0, 50000, 80000, 100000, 120000, 150000}

InitDrawdown ==
    /\ now = StartTime
    /\ frac = 0
    /\ wallet \in {0, 100000}
    /\ cfg = [dry_run |-> TRUE, bankroll_mode |-> "dynamic",
              target_net_worth |-> 1000000, use_websocket |-> FALSE,
              account_trades |-> TRUE]
    /\ pm = NewPositionManager(wallet, "0xours")
    /\ rm = NewRiskManager
    /\ market_cache = <<>>
    /\ mon = StartedMonitor(FALSE)
    /\ bot = StartedBot
    /\ calls = [tx \in TxIds |-> 0]
    /\ cb = NoCallback
    /\ IdleSizer
    /\ IdleValidator
    /\ IdleExecutor
    /\ IdleDrawdown

\* the balance or the value of the open positions moved
DrawdownRead ==
    /\ \E w \in DrawdownReadings : w # wallet /\ wallet' = w
    /\ UNCHANGED <<now, frac, cfg, pm, rm, market_cache, mon, bot, calls, cb, sz, vt,
                   ex, dh>>

\* update_drawdown is called; the harness notes the net worth it read and
\* whether it raised
DrawdownUpdate ==
    /\ \E u \in {update_drawdown(pm)} :
          /\ pm' = u.pm
          /\ dh' = [phase |-> "out", net_worth |-> get_net_worth(pm),
                     raised |-> u.raised]
    /\ UNCHANGED <<now, frac, wallet, cfg, rm, market_cache, mon, bot, calls, cb, sz,
                   vt, ex>>

DrawdownNext == DrawdownRead \/ DrawdownUpdate

SpecDrawdown == InitDrawdown /\ [][DrawdownNext]_vars

-----------------------------------------------------------------------------
(* Properties                                                              *)

TradeOf(tx) == CHOOSE t \in Trades : t.tx = tx

\* C1: over any sequence of stream messages and poll responses, the stream
\* failing over to polling included, the callback is invoked at most once
\* per transaction identifier.
C1_AtMostOnce == \A tx \in TxIds : calls[tx] <= 1

\* C1 witness: after the failover the poll loop is handed a record whose
\* identifier was already delivered once.
C1_Witness ==
    /\ mon.ws_pc = "done" /\ mon.poll_pc = "process" /\ mon.trades # <<>>
    /\ Head(mon.trades).tx \in mon.seen_tx_hashes
    /\ calls[Head(mon.trades).tx] = 1

\* C2 as stated: in push and in pull mode alike the callback never fires for
\* a trade whose timestamp is at or below the watermark at the time the
\* trade is examined.
C2_AboveWatermark == cb.called => cb.ts > cb.wm

\* C3 as stated: check_circuit_breakers called in state NORMAL trips exactly
\* when the daily PnL is at or below minus daily_loss_limit_pct percent of
\* net worth or the drawdown is above max_drawdown_pct; in every other case
\* it stays NORMAL and returns true.
C3_Original ==
    [][ (cb'.called /\ ~rm.circuit_breaker_active) =>
          LET p1  == update_daily_stats(pm)
              nw  == get_net_worth(p1)
              top == IF nw > pm.peak_net_worth THEN nw ELSE pm.peak_net_worth
              breach ==
                 \/ p1.daily_pnl * 100 <= -(daily_loss_limit_pct * nw)
                 \/ (top - nw) * 100 > max_drawdown_pct * top
          IN  /\ rm'.circuit_breaker_active <=> breach
              /\ ~breach => cb'.validated ]_vars

\* C3 amended: check_circuit_breakers called in state NORMAL trips exactly
\* when net worth is positive and the daily PnL is strictly below minus
\* daily_loss_limit_pct percent of it, or else when the drawdown is strictly
\* above max_drawdown_pct; when neither holds it stays NORMAL and returns
\* true, except that with a zero high-water mark and a net worth not above
\* it the drawdown update raises ZeroDivisionError and the state stays
\* NORMAL.
C3_TripCondition ==
    [][ (cb'.called /\ ~rm.circuit_breaker_active) =>
          LET p1  == update_daily_stats(pm)
              nw  == get_net_worth(p1)
              top == IF nw > pm.peak_net_worth THEN nw ELSE pm.peak_net_worth
              daily  == nw > 0 /\ p1.daily_pnl * 100 < -(daily_loss_limit_pct * nw)
              raises == ~daily /\ top = 0
              draw   == ~daily /\ top # 0
                           /\ (top - nw) * 100 > max_drawdown_pct * top
          IN  /\ rm'.circuit_breaker_active <=> (daily \/ draw)
              /\ daily => rm'.circuit_breaker_reason = "Daily loss limit exceeded"
              /\ draw => rm'.circuit_breaker_reason = "Maximum drawdown exceeded"
              /\ raises => (cb'.outcome = "error" /\ ~cb'.validated)
              /\ (~daily /\ ~draw /\ ~raises) => cb'.validated ]_vars

\* C3 witness: a callback found the breaker NORMAL with the daily PnL beyond
\* the limit and tripped it.
C3_Witness ==
    /\ cb.called /\ ~cb.tripped /\ cb.outcome = "skipped"
    /\ rm.circuit_breaker_active
    /\ rm.circuit_breaker_reason = "Daily loss limit exceeded"
    /\ pm.daily_pnl * 100 < -(daily_loss_limit_pct * wallet)

\* C4: once TRIPPED the breaker stays TRIPPED across checks, callbacks,
\* daily resets and drawdown recoveries; only reset_circuit_breaker returns
\* it to NORMAL.
C4_Latched ==
    [][ (rm.circuit_breaker_active /\ ~rm'.circuit_breaker_active)
           => ResetCircuitBreaker ]_vars

\* C4 witness: a callback on a tripped breaker after the day changed and the
\* net worth is back at its high-water mark, the breaker still tripped.
C4_Witness ==
    /\ cb.called /\ cb.tripped /\ rm.circuit_breaker_active
    /\ Day(now) > Day(StartTime)
    /\ wallet >= pm.peak_net_worth

\* C5: while the breaker is TRIPPED a callback runs no validation, submits
\* no order, changes neither positions nor history, and ends as a skip
\* without entering the error path.
C5_Halted ==
    [][ (cb'.called /\ rm.circuit_breaker_active) =>
          /\ cb'.outcome = "skipped"
          /\ ~cb'.validated /\ ~cb'.submitted /\ ~cb'.raised
          /\ pm' = pm /\ market_cache' = market_cache
          /\ rm' = rm ]_vars

\* C5 witness: a callback skipped on a breaker tripped before it, with a
\* position open.
C5_Witness ==
    /\ cb.called /\ cb.tripped /\ cb.outcome = "skipped"
    /\ DOMAIN pm.positions # {}

\* C6: at most one order is executed and recorded per condition id; a trade
\* for a market with an open position does not pass validation, and
\* add_position is never reached for an existing key.
C6_OnePerMarket ==
    [][ cb'.called =>
          /\ \A m \in Markets :
                Cardinality({i \in DOMAIN pm'.trade_history :
                                pm'.trade_history[i].condition_id = m}) <= 1
          /\ ~cb'.add_existing
          /\ (cb'.validated /\ has_position(pm, TradeOf(cb'.tx).condition_id))
                => /\ cb'.outcome \in {"rejected", "error"}
                   /\ ~cb'.submitted
                   /\ pm'.positions = pm.positions
                   /\ pm'.trade_history = pm.trade_history ]_vars

\* C6 witness: a second trade in a market with an open position, rejected
\* by the position-limits check.
C6_Witness ==
    /\ cb.called /\ cb.validated /\ cb.outcome = "rejected"
    /\ cb.reason = "Already have position in this market"
    /\ has_position(pm, TradeOf(cb.tx).condition_id)

\* C7: every notional passed to the order submission is positive and within
\* [min_bet_size_usd, max_bet_size_usd].
C7_NotionalInRange ==
    cb.submitted =>
        /\ cb.notional > 0
        /\ FLeq(min_bet_size_usd, FInt(cb.notional))
        /\ cb.notional <= max_bet_size_usd

\* C7 witness: an order submitted at the percent-of-portfolio cap.
C7_Witness ==
    /\ cb.called /\ cb.submitted /\ cb.outcome = "executed"
    /\ cb.notional * 100 = max_bet_pct_portfolio * get_net_worth(pm)

\* max_bet_pct_portfolio percent of the own net worth, as an exact fraction
PctCap(our) == Frac(max_bet_pct_portfolio * our, 100)

\* C8 as stated: for every notional and every pair of net worths the output
\* lies within [min_bet_size_usd, max_bet_size_usd] and is at most
\* max_bet_pct_portfolio percent of the own net worth.
C8_Original ==
    sz.phase = "out" =>
        /\ FLeq(min_bet_size_usd, FInt(sz.out))
        /\ sz.out <= max_bet_size_usd
        /\ FLeq(FInt(sz.out), PctCap(sz.our))

\* C8 amended: a non-positive net worth gives 0; otherwise the output is a
\* whole number of cents that is 0.00 or within
\* [min_bet_size_usd, max_bet_size_usd], and it exceeds max_bet_pct_portfolio
\* percent of the own net worth by at most the half cent that rounding adds.
C8_SizerBounds ==
    sz.phase = "out" =>
        /\ (sz.our <= 0 \/ sz.their <= 0) => sz.out = 0
        /\ sz.out = 0 \/ FLeq(min_bet_size_usd, FInt(sz.out))
        /\ sz.out >= 0
        /\ sz.out <= max_bet_size_usd
        /\ (sz.our > 0 /\ sz.their > 0) =>
               200 * sz.out <= 2 * max_bet_pct_portfolio * sz.our + 100

\* C8 witness: positive net worths where rounding lifts the output above the
\* percent-of-portfolio cap, and the output is a positive bet.
C8_Witness ==
    /\ sz.phase = "out" /\ sz.our > 0 /\ sz.their > 0
    /\ sz.out > 0
    /\ FLess(PctCap(sz.our), FInt(sz.out))

\* their notional reaches max_kelly_fraction of their net worth
AtKellyCap(bet, their) == bet * 100 >= max_kelly_fraction_pct * their

\* the uncapped proportional notional (bet / their) * our
Proportional(bet, their, our) == FMulInt(Frac(bet, their), our)

InsideClamps(p, our) ==
    /\ FLeq(min_bet_size_usd, p)
    /\ FLeq(p, FInt(max_bet_size_usd))
    /\ FLeq(p, PctCap(our))

C10_EarliestFailure ==
    (vt.phase = "out" /\ vt.data # NoData /\ vt.result = "fail") =>
        LET order ==
              << check_price_sanity(vt.trade),
                 check_outcome_matching(vt.trade, vt.data),
                 check_duplicate(vt.trade),
                 check_liquidity(vt.data),
                 check_market_closing(vt.data),
                 check_volume(vt.data),
                 check_spread(vt.data),
                 check_trade_age(vt.trade),
                 check_rate_limit(vt.p),
                 check_daily_loss_limit(vt.p),
                 check_drawdown_protection(vt.p),
                 check_minimum_edge(vt.trade, vt.data),
                 check_position_limits(vt.p, vt.trade, cfg.target_net_worth),
                 check_price_movement(vt.trade, vt.data) >>
        IN  \E i \in DOMAIN order :
               /\ ~order[i].passed
               /\ order[i].reason = vt.reason
               /\ \A j \in 1..(i - 1) : order[j].passed

\* C10 witness: a closed, thin market and an open position in it fail three
\* checks at once, and the reason returned is the liquidity check's.
C10_Witness ==
    /\ vt.phase = "out" /\ vt.result = "fail"
    /\ vt.reason = "Market is closed"
    /\ vt.data.volume24hr < min_24h_volume_usd
    /\ has_position(vt.p, vt.trade.condition_id)

\* the reasons of the checks that precede the daily loss check
EarlyReasons ==
    {"Price outside range", "Already have position in this market",
     "Market is closed", "Market closes too soon", "Volume too low",
     "Trade too old", "Rate limit", "Too soon since last trade"}

\* C11: when a check that precedes the daily loss check fails, no later
\* check is executed: validate_trade leaves the portfolio as it found it, no
\* daily PnL reset, no high-water mark or drawdown update.
C11_NoLaterCheck ==
    [][(/\ vt.phase = "in" /\ vt'.phase = "out"
        /\ vt'.result = "fail" /\ vt'.reason \in EarlyReasons)
       => vt'.p = vt.p]_vars

\* C12: for every trade, one without a price or one whose asset the market
\* data does not list included, and every market data answer, validate_trade
\* returns an outcome and does not raise.
C12_NeverRaises ==
    vt.phase = "out" => vt.result \in {"pass", "fail"}

\* C13: no exception raised while a trade is processed, the notifications
\* sent while an error is handled included, propagates out of
\* on_trade_detected.
C13_NoEscape ==
    cb.called => ~cb.raised

\* C14: when the callback raises, the feed keeps running: in pull mode the
\* poll loop is at the sleep that precedes its next poll, in push mode the
\* handler has returned with the stream open for the next message.
C14_FeedSurvives ==
    (cb.called /\ cb.raised) =>
        /\ cb.via = "poll" => (mon.poll_pc = "sleep" /\ PollLoopTop(mon) = "fetch")
        /\ cb.via = "ws" => (mon.ws_pc = "open" /\ mon.poll_pc = "none")

\* C14 witness: a poll delivers tx 2 and its callback raises, after the
\* callback of tx 1 was run; the loop is at its sleep.
C14_Witness ==
    /\ cb.called /\ cb.raised /\ cb.via = "poll" /\ cb.tx = 2
    /\ calls[1] = 1
    /\ mon.poll_pc = "sleep"

\* the stream thread is inside _websocket_loop / the poll thread inside
\* _polling_loop
InStreamLoop == mon.ws_pc \in {"connecting", "open", "closed", "sleeping"}
InPollLoop == mon.poll_pc \in {"fetch", "process", "sleep"}

\* C15: at most one callback is in progress at any time.  A callback runs on
\* the feed thread that delivers the trade, so this is: the stream thread and
\* a poll thread are never inside their loops together, no second poll thread
\* is started, and a callback is run by the thread whose loop is live, also
\* across the failover in which the stream thread starts the poll thread.
C15_OneFeedThread ==
    /\ ~(InStreamLoop /\ InPollLoop)
    /\ mon.polls_started <= 1
    /\ cb.called => \/ (cb.via = "ws" /\ mon.ws_pc = "open" /\ ~InPollLoop)
                    \/ (cb.via = "poll" /\ InPollLoop /\ ~InStreamLoop)

\* C15 witness: after the failover the poll thread runs a callback, the
\* stream thread having run one before it left its loop.
C15_Witness ==
    /\ cb.called /\ cb.via = "poll"
    /\ mon.ws_pc = "done" /\ mon.polls_started = 1
    /\ \E tx \in TxIds : tx # cb.tx /\ calls[tx] = 1 /\ tx \in mon.seen_tx_hashes

\* C16: after an interrupt or termination signal was handled while the bot
\* was running, the shutdown path invokes TradeMonitor.stop: start() does
\* not end without it.
C16_StopInvoked ==
    (bot.signalled /\ bot.main_pc = "done") => bot.monitor_stops >= 1

\* C17: once TradeMonitor.stop has cleared the running flag, the feed thread
\* begins no further poll or connection attempt and eventually leaves its
\* loop, and stop returns when its joins are over.
C17_ThreadLeaves ==
    /\ (~mon.running) ~> (~InStreamLoop /\ ~InPollLoop)
    /\ [][~mon.running =>
            /\ (mon'.poll_pc = "fetch" => mon.poll_pc = "fetch")
            /\ (mon'.ws_pc = "connecting" => mon.ws_pc = "connecting")]_vars
    /\ (bot.main_pc = "joining") ~> (bot.main_pc = "done")

\* C18: once the reconnection cap is exhausted the feed is in pull mode and
\* stays there: the stream loop has been left and is not entered again,
\* use_websocket stays cleared, and exactly one poll thread was started, which
\* is in its loop while the running flag is set.
C18_FailoverOnce ==
    /\ [](mon.reconnect_attempts >= max_reconnect_attempts =>
            /\ mon.ws_pc = "done" /\ ~mon.use_websocket
            /\ mon.polls_started = 1
            /\ mon.running => InPollLoop)
    /\ [][mon.reconnect_attempts >= max_reconnect_attempts =>
            /\ mon'.ws_pc = "done" /\ ~mon'.use_websocket
            /\ mon'.polls_started = 1
            /\ mon'.reconnect_attempts = mon.reconnect_attempts]_vars

\* C18 witness: the cap was reached, and the poll thread has since delivered
\* a trade and gone to sleep.
C18_Witness ==
    /\ mon.reconnect_attempts = max_reconnect_attempts
    /\ mon.ws_pc = "done" /\ ~mon.use_websocket
    /\ mon.poll_pc = "sleep" /\ mon.seen_tx_hashes # {}
    /\ cb.called /\ cb.via = "poll"

\* C19: in pull mode, while the running flag is set, every poll, whether the
\* fetch succeeds or fails or the processing of a record fails, ends in the
\* sleep, and the sleep is followed by the next poll: no failure ends the
\* loop.
C19_PollsAgain ==
    [][mon.running =>
         /\ (mon.poll_pc = "fetch" => mon'.poll_pc \in {"fetch", "process", "sleep"})
         /\ (mon.poll_pc = "process" => mon'.poll_pc \in {"process", "sleep"})
         /\ (mon.poll_pc = "sleep" => mon'.poll_pc \in {"sleep", "fetch"})]_vars

\* C19 witness: the poll loop is at its next fetch after a poll in which the
\* callback of tx 1 raised and abandoned the response.
C19_Witness ==
    /\ mon.poll_pc = "fetch" /\ mon.ws_pc = "none"
    /\ mon.seen_tx_hashes = {1} /\ calls[1] = 1
    /\ ~rm.circuit_breaker_active

\* C20: in push mode a message whose address is not the tracked account's
\* does not invoke the callback and leaves the seen set and the watermark
\* as they were.
C20_ForeignIgnored ==
    [][(cb'.addr # "" /\ cb'.addr # target_account) =>
         /\ ~cb'.called
         /\ calls' = calls
         /\ mon'.seen_tx_hashes = mon.seen_tx_hashes
         /\ mon'.last_trade_timestamp = mon.last_trade_timestamp
         /\ pm' = pm /\ rm' = rm]_vars

\* C20 witness: the stream has delivered tx 1 of the tracked account, and
\* then a message of another account, which was dropped.
C20_Witness ==
    /\ cb.addr = "0xother" /\ ~cb.called
    /\ mon.ws_pc = "open"
    /\ mon.seen_tx_hashes = {1} /\ mon.last_trade_timestamp = StartTime
    /\ calls[1] = 1 /\ \A tx \in TxIds \ {1} : calls[tx] = 0

\* the size the seen set would be pruned at: one below the number of
\* distinct transactions the feed delivers
SeenThreshold == Cardinality(TxIds) - 1

\* C21: the set of seen transaction identifiers is bounded: it is pruned
\* when it exceeds a threshold, so that however many events are accepted its
\* size stays at or below that threshold.
C21_SeenBounded ==
    Cardinality(mon.seen_tx_hashes) <= SeenThreshold

\* C22: the watermark never decreases, over any sequence of accepted stream
\* messages and poll records.
C22_WatermarkMonotonic ==
    [][mon'.last_trade_timestamp >= mon.last_trade_timestamp]_vars

\* C23: the snapshot handed to the checks was fetched less than 60 s
\* earlier.  A cache entry younger than that is served as it is; an expired
\* or missing entry is replaced by a fetch made now, and when that fetch
\* fails validation gets no data and fails with the market data reason, the
\* expired entry staying unused.
C23_FreshData ==
    [][(cb'.called /\ cb'.validated) =>
         LET m   == TradeOf(cb'.tx).condition_id
             hit == /\ m \in DOMAIN market_cache
                    /\ now - market_cache[m].timestamp < CACHE_TTL
         IN  /\ cb'.md_found => /\ now - cb'.md_time < CACHE_TTL
                                /\ market_cache'[m].timestamp = cb'.md_time
             /\ hit => /\ cb'.md_found
                       /\ market_cache' = market_cache
             /\ ~hit => \/ cb'.md_found /\ cb'.md_time = now
                        \/ /\ ~cb'.md_found
                           /\ market_cache' = market_cache
                           /\ cb'.outcome = "rejected"
                           /\ cb'.reason = "Could not fetch market data"]_vars

\* C23 witness: the cache holds a snapshot of the trade's market that is a
\* day old, the fetch fails, and the trade is rejected for want of data.
C23_Witness ==
    /\ cb.called /\ cb.validated /\ ~cb.md_found
    /\ cb.reason = "Could not fetch market data"
    /\ TradeOf(cb.tx).condition_id \in DOMAIN market_cache
    /\ now - market_cache[TradeOf(cb.tx).condition_id].timestamp >= CACHE_TTL

\* C24: during a callback the open-position map and the trade history
\* change exactly when the order submission reported success, and then both
\* do; a failed submission, a rejection, a tripped breaker or an error leave
\* both as they were.
C24_BooksFollowSuccess ==
    [][cb'.called =>
         IF cb'.outcome = "executed"
         THEN /\ pm'.positions # pm.positions
              /\ Len(pm'.trade_history) = Len(pm.trade_history) + 1
         ELSE /\ pm'.positions = pm.positions
              /\ pm'.trade_history = pm.trade_history]_vars

\* C24 witness: a live order for tx 2 is refused by the execution service
\* after the order for another trade was filled and recorded.
C24_Witness ==
    /\ cb.called /\ cb.tx = 2 /\ cb.outcome = "exec_failed" /\ cb.submitted
    /\ Len(pm.trade_history) = 1
    /\ DOMAIN pm.positions = {"m1"}

\* C25: when validation fails, the callback issues the rejection
\* notification with the failing reason, submits no order and ends normally:
\* the error handler does not run and nothing is raised.
C25_RejectionNotified ==
    (cb.called /\ cb.outcome = "rejected") =>
        /\ cb.notified = "rejected"
        /\ ~cb.submitted
        /\ ~cb.handler /\ ~cb.raised

\* attempt i of the executor harness was answered with an order identifier
HasId(i) == ex.trade.price # 0 /\ ex.answers[i].kind = "id"

\* C26: one live execute_order makes at most max_retries attempts, and every
\* attempt begins with less than total_timeout elapsed since the call began.
C26_AttemptsBounded ==
    (ex.phase = "out" /\ ~ex.dry_run) =>
        /\ ex.out.attempts <= max_retries
        /\ ex.out.service_calls <= ex.out.attempts
        /\ Len(ex.out.starts) = ex.out.attempts
        /\ \A i \in DOMAIN ex.out.starts : ex.out.starts[i] < total_timeout

\* C26 witness: the first answer, an error, takes three seconds; the call
\* ends on the timeout after that one attempt.
C26_Witness ==
    /\ ex.phase = "out" /\ ~ex.dry_run
    /\ ex.answers[1] = [kind |-> "no_id", duration |-> total_timeout]
    /\ ex.answers[2].kind = "id"
    /\ ex.out.attempts = 1 /\ ~ex.out.success /\ ex.out.error = "Timeout"

\* C27: a live execute_order returns a result.  It is a success exactly when
\* an attempt was answered with an order identifier, and that attempt is the
\* last one made; every attempt before the last was an answer without
\* identifier or an exception, and was retried.  A failure is returned only
\* when the attempts or the time are exhausted, with the error of the last
\* attempt or the timeout as its reason.
C27_SubmitResult ==
    (ex.phase = "out" /\ ~ex.dry_run) =>
        LET o == ex.out
            n == o.attempts
        IN  /\ o.success \in BOOLEAN
            /\ o.success <=> (n >= 1 /\ HasId(n))
            /\ \A i \in 1..(n - 1) : ~HasId(i)
            /\ o.success => o.order_id = "id" /\ o.error = ""
            /\ ~o.success =>
                 \/ /\ o.error = "Timeout" /\ n < max_retries
                    /\ n >= 1 => o.starts[n] + ex.answers[n].duration + retry_delay
                                    >= total_timeout
                 \/ /\ n = max_retries
                    /\ o.error = IF ex.trade.price = 0 THEN "ZeroDivisionError"
                                 ELSE IF ex.answers[n].kind = "raise" THEN "exception"
                                 ELSE IF ex.answers[n].kind = "no_id" THEN "order error"
                                 ELSE "AttributeError"

\* C27 witness: no answer, then an exception, then an order identifier: the
\* third attempt succeeds.
C27_Witness ==
    /\ ex.phase = "out" /\ ~ex.dry_run /\ ex.trade.price # 0
    /\ ex.answers[1].kind = "none" /\ ex.answers[2].kind = "raise"
    /\ ex.answers[3].kind = "id"
    /\ ex.out.success /\ ex.out.attempts = 3

\* C28: in simulation every execute_order succeeds with a made-up identifier
\* and does not call the execution service, whatever the trade, the notional
\* and the state of the service.
C28_DryRunSucceeds ==
    (ex.phase = "out" /\ ex.dry_run) =>
        /\ ex.out.success /\ ex.out.order_id = "DRY_RUN"
        /\ ex.out.service_calls = 0 /\ ex.out.attempts = 0

\* C28 witness: a simulated order for a record without a price and a zero
\* notional, while the execution service is down.
C28_Witness ==
    /\ ex.phase = "out" /\ ex.dry_run
    /\ ex.trade.price = 0 /\ ex.size_usd = 0
    /\ \A i \in DOMAIN ex.answers : ex.answers[i].kind = "raise"
    /\ ex.out.success

\* C29: over any sequence of trade callbacks on an advancing clock, at most
\* max_trades_per_hour recorded trades fall in the hour that ends with a
\* recording, and between the recording of one executed trade and the
\* validation of the next the clock read in whole seconds advances by at
\* least min_seconds_between_trades, which is more than
\* min_seconds_between_trades - 1 seconds of time.
C29_RateLimited ==
    [][Len(pm'.trade_history) > Len(pm.trade_history) =>
          /\ Cardinality({i \in DOMAIN pm'.trade_history :
                 pm'.trade_history[i].timestamp >
                    Clock - HALVES_PER_SECOND * SECONDS_PER_HOUR})
                <= max_trades_per_hour
          /\ now - pm.last_trade_time >= min_seconds_between_trades
          /\ Len(pm.trade_history) > 0 =>
                Clock - pm.trade_history[Len(pm.trade_history)].timestamp
                   > HALVES_PER_SECOND * (min_seconds_between_trades - 1)]_vars

\* C29 as stated: the recording of one executed trade and the validation of
\* the next are at least min_seconds_between_trades apart
C29_FullInterval ==
    [][Len(pm'.trade_history) > Len(pm.trade_history)
          /\ Len(pm.trade_history) > 0 =>
          Clock - pm.trade_history[Len(pm.trade_history)].timestamp
             >= HALVES_PER_SECOND * min_seconds_between_trades]_vars

\* C29 witness: the hour holds max_trades_per_hour recorded trades, two of
\* them 29.5 s apart, and the callback of one more is turned down by the cap
C29_Witness ==
    /\ cb.called /\ cb.reason = "Rate limit" /\ ~cb.submitted
    /\ Len(pm.trade_history) = max_trades_per_hour
    /\ \E i \in 1..(Len(pm.trade_history) - 1) :
          pm.trade_history[i + 1].timestamp - pm.trade_history[i].timestamp
             = HALVES_PER_SECOND * min_seconds_between_trades - 1

\* C30: within one callback the steps run in the order breaker check,
\* validation, sizing, submission, bookkeeping: validation starts only after
\* check_circuit_breakers returned true, an order is submitted only after
\* that and after a validation that passed (never for a trade whose
\* validation failed), and positions and history change only after a
\* submission.
C30_StepsInOrder ==
    [][cb'.called =>
          /\ cb'.validated =>
                /\ ~check_circuit_breakers(rm, pm).raised
                /\ check_circuit_breakers(rm, pm).ret
          /\ cb'.submitted =>
                /\ cb'.validated
                /\ cb'.reason = "All checks passed"
          /\ (cb'.validated /\ cb'.reason # "All checks passed") => ~cb'.submitted
          /\ (pm'.positions # pm.positions
                 \/ pm'.trade_history # pm.trade_history) => cb'.submitted]_vars

\* C30 witness: an order is submitted and filled after validation passed,
\* in a run where the callback of a trade in another market placed none
C30_Witness ==
    /\ cb.called /\ cb.validated /\ cb.reason = "All checks passed"
    /\ cb.submitted /\ cb.outcome = "executed"
    /\ Len(pm.trade_history) = 1
    /\ \E tx \in TxIds : calls[tx] > 0 /\ tx # cb.tx
                           /\ TradeOf(tx).condition_id \notin DOMAIN pm.positions

\* C31: in push mode at most max_reconnect_attempts consecutive connection
\* attempts fail to reach an open, however each of them ends, before the
\* loop switches to pull mode; in particular no more than that many end
\* with the connection routine returning.
C31_AttemptsCapped == mon.unopened_returns <= max_reconnect_attempts

\* C32: the events passed to the callback from one poll response are in
\* non-decreasing timestamp order, whatever the order of its records (a
\* stream message carries one record and yields at most one event).
C32_EmittedInOrder ==
    \A i, j \in DOMAIN mon.emitted :
        i < j => mon.emitted[i] <= mon.emitted[j]

\* C32 witness: two events were passed to the callback from one response
C32_Witness ==
    /\ mon.poll_pc = "process"
    /\ Len(mon.emitted) = 2
    /\ cb.called /\ cb.via = "poll" /\ cb.ts = mon.emitted[2]

\* C33: over any sequence of update_drawdown calls on arbitrary net-worth
\* readings, peak_net_worth never decreases and is at least the net worth
\* update_drawdown last read, and current_drawdown_pct is 0 when that net
\* worth was at or above the peak and else the shortfall from the peak in
\* percent of the peak.
C33_HighWaterMark ==
    [][/\ pm'.peak_net_worth >= pm.peak_net_worth
       /\ dh'.phase = "out" =>
             /\ pm'.peak_net_worth >= dh'.net_worth
             /\ pm'.current_drawdown_pct =
                   IF dh'.net_worth >= pm'.peak_net_worth THEN <<0, 1>>
                   ELSE Frac((pm'.peak_net_worth - dh'.net_worth) * 100,
                             pm'.peak_net_worth)]_vars

\* C33 witness: the net worth rose above the initial capital and then fell;
\* update_drawdown has seen both
C33_Witness ==
    /\ dh.phase = "out"
    /\ pm.peak_net_worth > pm.initial_capital
    /\ dh.net_worth < pm.peak_net_worth
    /\ pm.current_drawdown_pct # <<0, 1>>

\* C34: check_circuit_breakers called in state TRIPPED returns false
\* without re-evaluating anything: no net-worth query, and the trip reason,
\* daily PnL, daily reset marker, high-water mark and drawdown stay as
\* they were, also across the callback that made the call.
C34_TrippedNoReevaluation ==
    [][rm.circuit_breaker_active =>
          /\ check_circuit_breakers(rm, pm) =
                [ret |-> FALSE, raised |-> FALSE, pm |-> pm, rm |-> rm,
                 net_worth_reads |-> 0]
          /\ cb'.called =>
                /\ rm'.circuit_breaker_reason = rm.circuit_breaker_reason
                /\ pm'.daily_pnl = pm.daily_pnl
                /\ pm'.daily_reset_day = pm.daily_reset_day
                /\ pm'.peak_net_worth = pm.peak_net_worth
                /\ pm'.current_drawdown_pct = pm.current_drawdown_pct]_vars

\* C34 witness: a callback on a tripped breaker the day after the trip, with
\* the net worth back at the high-water mark: a re-evaluation would have
\* reset the daily stats and the drawdown
C34_Witness ==
    /\ cb.called /\ cb.tripped /\ rm.circuit_breaker_active
    /\ Day(now) > pm.daily_reset_day
    /\ wallet >= pm.peak_net_worth
    /\ pm.current_drawdown_pct # <<0, 1>>

\* C35: in pull mode a response whose records are in strictly descending
\* timestamp order yields at most one event, and the records it lists after
\* that event, even those unseen and newer than the watermark of before the
\* poll, are never passed to the callback, in that poll or a later one.
C35_OlderPassedOver ==
    [][/\ \A tx \in mon'.passed_over : calls'[tx] = 0
       /\ (mon.descending /\ cb'.called /\ cb'.via = "poll")
             => mon.emitted = <<>>]_vars

\* C35 witness: a later poll is about to examine a record that a descending
\* response listed after the event it yielded
C35_Witness ==
    /\ mon.poll_pc = "process" /\ mon.trades # <<>>
    /\ Head(mon.trades).tx \in mon.passed_over
    /\ Head(mon.trades).timestamp < mon.last_trade_timestamp

\* C36: in both modes the identifier is in the seen set and the watermark
\* is the trade's timestamp by the time the callback runs, whether it
\* returns or raises, and the seen set only grows; a callback is only
\* started for an identifier not in the set, so there is no second delivery
\* and no retry of a failed callback.
C36_MarkedBeforeCallback ==
    [][/\ mon.seen_tx_hashes \subseteq mon'.seen_tx_hashes
       /\ cb'.called =>
             /\ cb'.tx \notin mon.seen_tx_hashes
             /\ cb'.tx \in mon'.seen_tx_hashes
             /\ mon'.last_trade_timestamp = cb'.ts
             /\ calls'[cb'.tx] = 1]_vars

\* C36 witness: the callback of a polled trade raised; the identifier is in
\* the seen set, the watermark is the trade's timestamp and the loop has
\* gone on to its sleep
C36_Witness ==
    /\ cb.called /\ cb.raised /\ cb.via = "poll"
    /\ cb.tx \in mon.seen_tx_hashes /\ calls[cb.tx] = 1
    /\ mon.last_trade_timestamp = cb.ts
    /\ mon.poll_pc = "sleep"

\* the cost of the trades recorded on the day of the last daily reset
RECURSIVE CostSince(_, _, _)
CostSince(history, day, i) ==
    IF i = 0 THEN 0
    ELSE CostSince(history, day, i - 1)
         + (IF Day(history[i].timestamp \div HALVES_PER_SECOND) = day
            THEN history[i].cost ELSE 0)

\* C37: in fixed-capital mode, once the cost of the trades executed since
\* the last daily reset exceeds daily_loss_limit_pct percent of the net
\* worth, the next callback processed on the same UTC date leaves the
\* breaker tripped on the daily loss limit and submits no order.
C37_CostTripsBreaker ==
    [][(/\ cb'.called
        /\ cfg.bankroll_mode = "fixed"
        /\ Day(now) = pm.daily_reset_day
        /\ CostSince(pm.trade_history, pm.daily_reset_day, Len(pm.trade_history)) * 100
              > daily_loss_limit_pct * get_net_worth(pm))
       => /\ rm'.circuit_breaker_active
          /\ rm'.circuit_breaker_reason = "Daily loss limit exceeded"
          /\ cb'.outcome = "skipped"
          /\ ~cb'.validated /\ ~cb'.submitted]_vars

\* C37 witness: a callback found the breaker clear and tripped it on the
\* cost of the trades recorded that day
C37_Witness ==
    /\ cb.called /\ ~cb.tripped /\ cb.outcome = "skipped"
    /\ rm.circuit_breaker_reason = "Daily loss limit exceeded"
    /\ Day(now) = pm.daily_reset_day
    /\ pm.trade_history # <<>>
    /\ pm.daily_pnl = -CostSince(pm.trade_history, pm.daily_reset_day,
                                 Len(pm.trade_history))

\* C38: in the bot as wired (no wallet address, realized and unrealized PnL
\* never written) the net worth is the initial capital after any sequence
\* of callbacks; with a positive initial capital the high-water mark stays
\* at it, the drawdown stays 0, and neither the drawdown breaker nor the
\* drawdown validation check fires.
C38_NetWorthConstant ==
    [][/\ pm'.initial_capital = pm.initial_capital
       /\ get_net_worth(pm)' = pm.initial_capital
       /\ pm.initial_capital > 0 =>
             /\ pm'.peak_net_worth = pm.initial_capital
             /\ pm'.current_drawdown_pct = <<0, 1>>
             /\ rm'.circuit_breaker_reason # "Maximum drawdown exceeded"
             /\ cb'.reason # "Drawdown exceeds limit"]_vars

\* C38 witness: two orders were filled and recorded, the day's PnL is
\* below zero, and a callback has the breaker tripped on the daily loss
C38_Witness ==
    /\ pm.initial_capital > 0
    /\ Len(pm.trade_history) = 2 /\ pm.daily_pnl < 0
    /\ cb.called /\ ~cb.tripped /\ rm.circuit_breaker_active
    /\ get_net_worth(pm) = pm.peak_net_worth

\* C39: after a successful submission the position and the history entry
\* are recorded whether or not the execution notification, or the error
\* notification after it, fails; they are never removed afterwards, and a
\* later callback for a market with a position submits no order.
C39_BooksSurviveNotification ==
    [][/\ DOMAIN pm.positions \subseteq DOMAIN pm'.positions
       /\ Len(pm'.trade_history) >= Len(pm.trade_history)
       /\ cb'.called =>
             /\ cb'.outcome = "executed" =>
                   /\ TradeOf(cb'.tx).condition_id \in DOMAIN pm'.positions
                   /\ TradeOf(cb'.tx).condition_id \notin DOMAIN pm.positions
                   /\ Len(pm'.trade_history) = Len(pm.trade_history) + 1
                   /\ pm'.trade_history[Len(pm'.trade_history)].condition_id
                         = TradeOf(cb'.tx).condition_id
             /\ TradeOf(cb'.tx).condition_id \in DOMAIN pm.positions
                   => ~cb'.submitted]_vars

\* C39 witness: the execution notification of a filled order failed and so
\* did the error notification after it; the position and its history entry
\* are in the books
C39_Witness ==
    /\ cb.called /\ cb.outcome = "executed"
    /\ cb.notified = "" /\ cb.handler /\ cb.raised
    /\ TradeOf(cb.tx).condition_id \in DOMAIN pm.positions
    /\ pm.trade_history[Len(pm.trade_history)].condition_id
          = TradeOf(cb.tx).condition_id

\* C40: while the breaker is TRIPPED the feed goes on consuming: a trade
\* it hands to the callback is in the seen set and has set the watermark
\* although the callback skips it; a manual reset touches neither; and an
\* order is only ever placed or recorded in the first callback of a trade,
\* so a trade skipped during the halt is not replicated later.
C40_HaltConsumes ==
    [][/\ (cb'.called /\ rm.circuit_breaker_active) =>
             /\ cb'.outcome = "skipped" /\ ~cb'.submitted
             /\ cb'.tx \in mon'.seen_tx_hashes
             /\ mon'.last_trade_timestamp = cb'.ts
       /\ (rm.circuit_breaker_active /\ ~rm'.circuit_breaker_active) =>
             /\ mon' = mon /\ calls' = calls
       /\ (cb'.submitted \/ pm'.trade_history # pm.trade_history
                         \/ pm'.positions # pm.positions) =>
             /\ cb'.called /\ calls[cb'.tx] = 0
             /\ ~rm.circuit_breaker_active]_vars

\* C40 witness: the poll loop handed a trade to the callback on a tripped
\* breaker; the trade is skipped and marked
C40_Witness ==
    /\ cb.called /\ cb.tripped /\ cb.outcome = "skipped" /\ cb.via = "poll"
    /\ rm.circuit_breaker_active
    /\ cb.tx \in mon.seen_tx_hashes /\ calls[cb.tx] = 1
    /\ mon.last_trade_timestamp = cb.ts
    /\ TradeOf(cb.tx).condition_id \notin DOMAIN pm.positions

====
